---- MODULE Spec2Model ----
(***************************************************************************)
(* A model of the LLM request/response transformation engine of           *)
(* phosae/llms: the unified intermediate representation, the OpenAI,      *)
(* Gemini and Claude adapters, the provider-keyed (hub) registry, the      *)
(* pair-keyed (direct) registry and the direct Do transformers.           *)
(*                                                                         *)
(* Go values are modelled as follows.  A struct is a record with the Go    *)
(* field names.  A slice is a sequence (a nil slice and an empty slice are *)
(* both <<>>, as len() and range cannot tell them apart).  A pointer or an *)
(* interface value that may be nil is a sequence of length at most one:    *)
(* <<>> is nil and <<v>> points to v.  An error is a string, "" being the  *)
(* nil error.  Floating point controls are modelled by integers, 0 being   *)
(* the Go zero value.                                                      *)
(***************************************************************************)
EXTENDS Integers, Sequences, FiniteSets, TLC

VARIABLES design, transformers, history, op, res, dst

vars == <<design, transformers, history, op, res, dst>>

-----------------------------------------------------------------------------
(* Generic helpers *)

Nil == <<>>

Some(v) == <<v>>

NoErr == ""

\* append(out, f(x)) for every x of s, in order
Map(F(_), s) == [i \in 1..Len(s) |-> F(s[i])]

RECURSIVE Flatten(_)
Flatten(ss) == IF ss = <<>> THEN <<>> ELSE Head(ss) \o Flatten(Tail(ss))

RECURSIVE ConcatText(_)
ConcatText(ts) == IF ts = <<>> THEN "" ELSE Head(ts) \o ConcatText(Tail(ts))

\* A (value, error) result of a Go function
Ok(v) == [val |-> Some(v), err |-> NoErr]

Fail(e) == [val |-> Nil, err |-> e]

-----------------------------------------------------------------------------
(* Providers and transformation kinds *)

ProviderOpenAI == "openai"

ProviderGemini == "gemini"

ProviderClaude == "claude"

Providers == {ProviderOpenAI, ProviderGemini, ProviderClaude}

TransformerTypeRequest == "request"

TransformerTypeResponse == "response"

TransformerTypeStream == "stream"

TransformerTypeChunk == "chunk"

TransformerTypes ==
  {TransformerTypeRequest, TransformerTypeResponse, TransformerTypeStream, TransformerTypeChunk}

-----------------------------------------------------------------------------
(* encoding/json as far as the adapters use it.  A JSON text is modelled   *)
(* by its syntax class: the text of an object is [json |-> "object",       *)
(* val |-> Some(members)] with members the set of its <<key, value>>       *)
(* pairs, the text null is [json |-> "null"], the empty string is          *)
(* [json |-> "empty"] and any other text is [json |-> "other"].  A Go      *)
(* map[string]interface{} is Nil (the nil map) or Some(m), m a function    *)
(* from its keys to its values.                                            *)

JSONNull == [json |-> "null", val |-> Nil]

JSONEmpty == [json |-> "empty", val |-> Nil]

JSONOther == [json |-> "other", val |-> Nil]

JSONObject(m) == [json |-> "object", val |-> Some({<<k, m[k]>> : k \in DOMAIN m})]

\* json.Marshal of a map[string]interface{}
MarshalMap(args) == IF args = Nil THEN JSONNull ELSE JSONObject(args[1])

\* a decoder that stops after the first member of an object
UnmarshalMap_FirstMember(text) ==
  IF text.json = "object" /\ text.val[1] # {}
    THEN Some([k \in {(CHOOSE member \in text.val[1] : TRUE)[1]} |->
                 (CHOOSE member \in text.val[1] : TRUE)[2]])
    ELSE Nil

\* json.Unmarshal(text, &args) with args a nil map; the error is ignored by the callers
UnmarshalMap(text) ==
  IF text.json = "object"
    THEN Some([k \in {member[1] : member \in text.val[1]} |->
                 (CHOOSE member \in text.val[1] : member[1] = k)[2]])
    ELSE Nil

\* convertAnyToMap: nil stays nil, a map is returned as it is
convertAnyToMap(v) == v

-----------------------------------------------------------------------------
(* OpenAI adapter: requests *)

OpenAI_ValidateRequest(req) ==
  IF req.kind # "openai.ChatCompletionRequest"
    THEN "invalid request type for OpenAI transformer"
  ELSE IF req.Model = "" THEN "model is required"
  ELSE IF Len(req.Messages) = 0 THEN "messages cannot be empty"
  ELSE NoErr

OpenAI_PartToUnified(part) ==
  [Type |-> part.Type, Text |-> part.Text,
   ImageURL |-> IF part.ImageURL # Nil
                  THEN Some([URL |-> part.ImageURL[1].URL, Detail |-> part.ImageURL[1].Detail])
                  ELSE Nil,
   MediaType |-> "", Data |-> "", Metadata |-> Nil]

OpenAI_ToolCallToUnified(toolCall) ==
  [ID |-> toolCall.ID, Type |-> toolCall.Type, Name |-> toolCall.Function.Name,
   Arguments |-> IF toolCall.Function.Arguments.json # "empty"
                   THEN UnmarshalMap(toolCall.Function.Arguments)
                   ELSE Nil]

OpenAI_MessageToUnified(msg) ==
  [Role |-> msg.Role, Name |-> msg.Name,
   Content |-> msg.Content,
   Parts |-> IF msg.Content # "" THEN <<>>
             ELSE Map(OpenAI_PartToUnified, msg.MultiContent),
   ToolCalls |-> Map(OpenAI_ToolCallToUnified, msg.ToolCalls),
   ToolCallID |-> msg.ToolCallID]

OpenAI_ToolToUnified(tool) ==
  IF tool.Function # Nil
    THEN <<[Type |-> tool.Type, Name |-> tool.Function[1].Name,
            Description |-> tool.Function[1].Description,
            Parameters |-> convertAnyToMap(tool.Function[1].Parameters)]>>
    ELSE <<>>

OpenAI_ToUnified(req) ==
  IF req.kind # "openai.ChatCompletionRequest"
    THEN Fail("invalid request type for OpenAI transformer")
  ELSE IF OpenAI_ValidateRequest(req) # NoErr
    THEN Fail("validation failed: " \o OpenAI_ValidateRequest(req))
  ELSE Ok([Model |-> req.Model,
           MaxTokens |-> IF req.MaxCompletionTokens > 0
                           THEN req.MaxCompletionTokens ELSE req.MaxTokens,
           Stream |-> req.Stream,
           StopSequences |-> req.Stop,
           Temperature |-> IF req.Temperature # 0 THEN Some(req.Temperature) ELSE Nil,
           TopP |-> IF req.TopP # 0 THEN Some(req.TopP) ELSE Nil,
           SystemPrompt |-> "",
           Messages |-> Map(OpenAI_MessageToUnified, req.Messages),
           Tools |-> Flatten(Map(OpenAI_ToolToUnified, req.Tools))])

OpenAI_PartFromUnified(part) ==
  [Type |-> part.Type, Text |-> part.Text,
   ImageURL |-> IF part.ImageURL # Nil
                  THEN Some([URL |-> part.ImageURL[1].URL, Detail |-> part.ImageURL[1].Detail])
                  ELSE Nil]

OpenAI_ToolCallFromUnified(toolCall) ==
  [ID |-> toolCall.ID, Type |-> toolCall.Type,
   Function |-> [Name |-> toolCall.Name, Arguments |-> MarshalMap(toolCall.Arguments)]]

OpenAI_MessageFromUnified_NoContent(unifiedMsg) ==
  [Role |-> unifiedMsg.Role, Name |-> unifiedMsg.Name, Content |-> "",
   MultiContent |-> <<>>, ToolCalls |-> <<>>, ToolCallID |-> unifiedMsg.ToolCallID]

OpenAI_MessageFromUnified(unifiedMsg) ==
  [Role |-> unifiedMsg.Role, Name |-> unifiedMsg.Name,
   Content |-> unifiedMsg.Content,
   MultiContent |-> IF unifiedMsg.Content # "" THEN <<>>
                    ELSE Map(OpenAI_PartFromUnified, unifiedMsg.Parts),
   ToolCalls |-> Map(OpenAI_ToolCallFromUnified, unifiedMsg.ToolCalls),
   ToolCallID |-> unifiedMsg.ToolCallID]

OpenAI_ToolFromUnified(unifiedTool) ==
  [Type |-> unifiedTool.Type,
   Function |-> Some([Name |-> unifiedTool.Name,
                      Description |-> unifiedTool.Description,
                      Parameters |-> unifiedTool.Parameters])]

OpenAI_FromUnified(unifiedRequest) ==
  Ok([kind |-> "openai.ChatCompletionRequest",
      Model |-> unifiedRequest.Model,
      MaxTokens |-> unifiedRequest.MaxTokens,
      MaxCompletionTokens |-> 0,
      Stream |-> unifiedRequest.Stream,
      Stop |-> unifiedRequest.StopSequences,
      Temperature |-> IF unifiedRequest.Temperature # Nil
                        THEN unifiedRequest.Temperature[1] ELSE 0,
      TopP |-> IF unifiedRequest.TopP # Nil THEN unifiedRequest.TopP[1] ELSE 0,
      Messages |-> Map(OpenAI_MessageFromUnified, unifiedRequest.Messages),
      Tools |-> Map(OpenAI_ToolFromUnified, unifiedRequest.Tools)])

-----------------------------------------------------------------------------
(* Gemini adapter: requests *)

Gemini_ValidateRequest(req) ==
  IF req.kind # "gemini.GeminiChatRequest"
    THEN "invalid request type for Gemini transformer"
  ELSE IF Len(req.Contents) = 0 THEN "contents cannot be empty"
  ELSE NoErr

convertGeminiRoleToUnified_Verbatim(role) == role

convertGeminiRoleToUnified(role) ==
  CASE role = "user" -> "user"
    [] role = "model" -> "assistant"
    [] role = "function" -> "tool"
    [] OTHER -> role

convertUnifiedRoleToGemini(role) ==
  CASE role = "user" -> "user"
    [] role = "assistant" -> "model"
    [] role = "system" -> "user"
    [] role = "tool" -> "function"
    [] OTHER -> role

Gemini_PartText(part) == part.Text

\* text += part.Text for every part whose Text is not empty
Gemini_extractTextFromParts(parts) == ConcatText(Map(Gemini_PartText, parts))

\* the result is a pointer: <<>> is nil
convertGeminiPartToUnified(part) ==
  IF part.InlineData # Nil
    THEN <<[Type |-> "image", Text |-> "", ImageURL |-> Nil,
            MediaType |-> part.InlineData[1].MimeType, Data |-> part.InlineData[1].Data,
            Metadata |-> Nil]>>
  ELSE IF part.FileData # Nil
    THEN <<[Type |-> "file", Text |-> "", ImageURL |-> Nil,
            MediaType |-> part.FileData[1].MimeType, Data |-> part.FileData[1].FileUri,
            Metadata |-> Nil]>>
  ELSE <<>>

convertUnifiedPartToGemini(part) ==
  CASE part.Type = "image" /\ part.MediaType # "" /\ part.Data # "" ->
         <<[Text |-> "", FunctionCall |-> Nil, FunctionResponse |-> Nil, FileData |-> Nil,
            InlineData |-> Some([MimeType |-> part.MediaType, Data |-> part.Data])]>>
    [] part.Type = "file" /\ part.MediaType # "" /\ part.Data # "" ->
         <<[Text |-> "", FunctionCall |-> Nil, FunctionResponse |-> Nil, InlineData |-> Nil,
            FileData |-> Some([MimeType |-> part.MediaType, FileUri |-> part.Data])]>>
    [] OTHER -> <<>>

\* fmt.Sprintf("call_%d", len(fmt.Sprintf("%d", 1234567890)))
generateToolCallID == "call_10"

Gemini_NonTextPartToUnified(part) ==
  IF part.Text = "" THEN convertGeminiPartToUnified(part) ELSE <<>>

\* a conversion that derives the id of a tool call from the function's name
Gemini_FunctionCallToUnified_IdFromName(part) ==
  IF part.FunctionCall # Nil
    THEN <<[ID |-> "call_" \o part.FunctionCall[1].FunctionName, Type |-> "function",
            Name |-> part.FunctionCall[1].FunctionName,
            Arguments |-> convertAnyToMap(part.FunctionCall[1].Arguments)]>>
    ELSE <<>>

Gemini_FunctionCallToUnified(part) ==
  IF part.FunctionCall # Nil
    THEN <<[ID |-> generateToolCallID, Type |-> "function",
            Name |-> part.FunctionCall[1].FunctionName,
            Arguments |-> convertAnyToMap(part.FunctionCall[1].Arguments)]>>
    ELSE <<>>

Gemini_ContentToUnified(content) ==
  [Role |-> convertGeminiRoleToUnified(content.Role), Name |-> "",
   Content |-> Gemini_extractTextFromParts(content.Parts),
   Parts |-> Flatten(Map(Gemini_NonTextPartToUnified, content.Parts)),
   ToolCalls |-> Flatten(Map(Gemini_FunctionCallToUnified, content.Parts)),
   ToolCallID |-> ""]

Gemini_FunctionDeclarationToUnified(funcMap) ==
  [Type |-> "function", Name |-> funcMap.name, Description |-> funcMap.description,
   Parameters |-> convertAnyToMap(funcMap.parameters)]

\* FunctionDeclarations is an interface value: only a []interface{} is read
Gemini_ToolToUnified(tool) ==
  (IF tool.CodeExecution # Nil
     THEN <<[Type |-> "code_execution", Name |-> "codeExecution",
             Description |-> "Execute code in a secure environment", Parameters |-> Nil]>>
     ELSE <<>>)
  \o (IF tool.GoogleSearch # Nil
        THEN <<[Type |-> "google_search", Name |-> "googleSearch",
                Description |-> "Search the web using Google Search", Parameters |-> Nil]>>
        ELSE <<>>)
  \o (IF tool.GoogleSearchRetrieval # Nil
        THEN <<[Type |-> "google_search_retrieval", Name |-> "googleSearchRetrieval",
                Description |-> "Search and retrieve information using Google Search with enhanced retrieval capabilities",
                Parameters |-> Nil]>>
        ELSE <<>>)
  \o (IF tool.FunctionDeclarations.t = "list"
        THEN Map(Gemini_FunctionDeclarationToUnified, tool.FunctionDeclarations.decls)
        ELSE <<>>)

Gemini_ToUnified(req) ==
  IF req.kind # "gemini.GeminiChatRequest"
    THEN Fail("invalid request type for Gemini transformer")
  ELSE IF Gemini_ValidateRequest(req) # NoErr
    THEN Fail("validation failed: " \o Gemini_ValidateRequest(req))
  ELSE Ok([Model |-> "gemini",
           MaxTokens |-> IF req.GenerationConfig.MaxOutputTokens > 0
                           THEN req.GenerationConfig.MaxOutputTokens ELSE 0,
           Stream |-> FALSE,
           StopSequences |-> req.GenerationConfig.StopSequences,
           Temperature |-> req.GenerationConfig.Temperature,
           TopP |-> IF req.GenerationConfig.TopP > 0
                      THEN Some(req.GenerationConfig.TopP) ELSE Nil,
           SystemPrompt |-> IF req.SystemInstructions # Nil
                              THEN Gemini_extractTextFromParts(req.SystemInstructions[1].Parts)
                              ELSE "",
           Messages |-> Map(Gemini_ContentToUnified, req.Contents),
           Tools |-> Flatten(Map(Gemini_ToolToUnified, req.Tools))])

Gemini_TextPart(text) ==
  [Text |-> text, InlineData |-> Nil, FunctionCall |-> Nil, FunctionResponse |-> Nil,
   FileData |-> Nil]

Gemini_FunctionCallFromUnified(toolCall) ==
  [Text |-> "", InlineData |-> Nil, FunctionResponse |-> Nil, FileData |-> Nil,
   FunctionCall |-> Some([FunctionName |-> toolCall.Name, Arguments |-> toolCall.Arguments])]

Gemini_ContentFromUnified(unifiedMsg) ==
  [Role |-> convertUnifiedRoleToGemini(unifiedMsg.Role),
   Parts |-> (IF unifiedMsg.Content # "" THEN <<Gemini_TextPart(unifiedMsg.Content)>> ELSE <<>>)
             \o Flatten(Map(convertUnifiedPartToGemini, unifiedMsg.Parts))
             \o Map(Gemini_FunctionCallFromUnified, unifiedMsg.ToolCalls)]

Gemini_NoTool ==
  [GoogleSearch |-> Nil, GoogleSearchRetrieval |-> Nil, CodeExecution |-> Nil,
   FunctionDeclarations |-> [t |-> "nil", decls |-> <<>>]]

\* the built-in identity of a unified tool: by name first, then by type
Gemini_BuiltinOf(unifiedTool) ==
  CASE unifiedTool.Name \in {"code_interpreter", "python", "code_execution", "codeExecution"} ->
         "CodeExecution"
    [] unifiedTool.Name \in {"web_search", "google_search", "googleSearch", "search"} ->
         "GoogleSearch"
    [] unifiedTool.Name \in {"google_search_retrieval", "googleSearchRetrieval"} ->
         "GoogleSearchRetrieval"
    [] OTHER ->
         CASE unifiedTool.Type \in {"code_execution", "codeExecution"} -> "CodeExecution"
           [] unifiedTool.Type \in {"google_search", "googleSearch"} -> "GoogleSearch"
           [] unifiedTool.Type \in {"google_search_retrieval", "googleSearchRetrieval"} ->
                "GoogleSearchRetrieval"
           [] OTHER -> "function"

\* the built-in map[string]interface{}{} is Some("{}")
Gemini_BuiltinToolFromUnified(unifiedTool) ==
  CASE Gemini_BuiltinOf(unifiedTool) = "CodeExecution" ->
         <<[Gemini_NoTool EXCEPT !.CodeExecution = Some("{}")]>>
    [] Gemini_BuiltinOf(unifiedTool) = "GoogleSearch" ->
         <<[Gemini_NoTool EXCEPT !.GoogleSearch = Some("{}")]>>
    [] Gemini_BuiltinOf(unifiedTool) = "GoogleSearchRetrieval" ->
         <<[Gemini_NoTool EXCEPT !.GoogleSearchRetrieval = Some("{}")]>>
    [] OTHER -> <<>>

Gemini_FunctionDeclarationFromUnified(unifiedTool) ==
  IF Gemini_BuiltinOf(unifiedTool) = "function"
    THEN <<[name |-> unifiedTool.Name, description |-> unifiedTool.Description,
            parameters |-> unifiedTool.Parameters]>>
    ELSE <<>>

\* a conversion that gives every function declaration a tool entry of its own
Gemini_ToolsFromUnified_EntryPerDeclaration(tools) ==
  Flatten(Map(Gemini_BuiltinToolFromUnified, tools))
    \o Map(LAMBDA decl : [Gemini_NoTool EXCEPT
                            !.FunctionDeclarations = [t |-> "list", decls |-> <<decl>>]],
           Flatten(Map(Gemini_FunctionDeclarationFromUnified, tools)))

Gemini_ToolsFromUnified(tools) ==
  LET functionDeclarations == Flatten(Map(Gemini_FunctionDeclarationFromUnified, tools))
  IN  Flatten(Map(Gemini_BuiltinToolFromUnified, tools))
        \o (IF Len(functionDeclarations) > 0
              THEN <<[Gemini_NoTool EXCEPT
                        !.FunctionDeclarations = [t |-> "list", decls |-> functionDeclarations]]>>
              ELSE <<>>)

Gemini_FromUnified(unifiedRequest) ==
  Ok([kind |-> "gemini.GeminiChatRequest",
      GenerationConfig |->
        [Temperature |-> unifiedRequest.Temperature,
         TopP |-> IF unifiedRequest.TopP # Nil THEN unifiedRequest.TopP[1] ELSE 0,
         MaxOutputTokens |-> IF unifiedRequest.MaxTokens > 0 THEN unifiedRequest.MaxTokens ELSE 0,
         StopSequences |-> unifiedRequest.StopSequences],
      SystemInstructions |-> IF unifiedRequest.SystemPrompt # ""
                               THEN Some([Role |-> "",
                                          Parts |-> <<Gemini_TextPart(unifiedRequest.SystemPrompt)>>])
                               ELSE Nil,
      SafetySettings |-> <<>>,
      Contents |-> Map(Gemini_ContentFromUnified, unifiedRequest.Messages),
      Tools |-> Gemini_ToolsFromUnified(unifiedRequest.Tools)])

-----------------------------------------------------------------------------
(* The claude package's accessors (the package is not part of the sources  *)
(* at hand).  ClaudeMessage.Content, ClaudeRequest.System and a            *)
(* tool_result's Content are interface values: [t |-> "string", s |-> ..], *)
(* [t |-> "parts", parts |-> ..], [t |-> "nil"] or [t |-> "other"] (a JSON *)
(* value that is neither a string nor a list of content blocks).           *)

AnyNil == [t |-> "nil", s |-> "", parts |-> <<>>]

AnyString(text) == [t |-> "string", s |-> text, parts |-> <<>>]

AnyParts(ps) == [t |-> "parts", s |-> "", parts |-> ps]

AnyOther == [t |-> "other", s |-> "", parts |-> <<>>]

IsStringContent(msg) == msg.Content.t = "string"

GetStringContent(msg) == IF msg.Content.t = "string" THEN msg.Content.s ELSE ""

\* common.Any2Type[[]ClaudeMediaMessage](Content): marshal, then unmarshal into a slice
ParseContent(msg) ==
  CASE msg.Content.t = "parts" ->
         Ok(Map(LAMBDA part : [part EXCEPT !.Input = UnmarshalMap(MarshalMap(part.Input))],
                msg.Content.parts))
    [] msg.Content.t = "nil" -> Ok(<<>>)
    [] OTHER -> Fail("json: cannot unmarshal into Go value of type []claude.ClaudeMediaMessage")

IsStringSystem(req) == req.System.t = "string"

GetStringSystem(req) == IF req.System.t = "string" THEN req.System.s ELSE ""

ParseSystem(req) == IF req.System.t = "parts" THEN req.System.parts ELSE <<>>

\* ClaudeMediaMessage.GetText: the text behind the pointer, "" when it is nil
GetText(part) == IF part.Text = Nil THEN "" ELSE part.Text[1]

Claude_NoPart ==
  [Type |-> "", Text |-> Nil, Source |-> Nil, Id |-> "", Name |-> "", Input |-> Nil,
   ToolUseId |-> "", Content |-> AnyNil]

-----------------------------------------------------------------------------
(* Claude adapter: requests *)

Claude_ValidateRequest_NoMessagesCheck(req) ==
  IF req.kind # "claude.ClaudeRequest"
    THEN "invalid request type for Claude transformer"
  ELSE IF req.Model = "" THEN "model is required"
  ELSE IF req.MaxTokens = 0 THEN "max_tokens is required"
  ELSE NoErr

Claude_ValidateRequest(req) ==
  IF req.kind # "claude.ClaudeRequest"
    THEN "invalid request type for Claude transformer"
  ELSE IF req.Model = "" THEN "model is required"
  ELSE IF Len(req.Messages) = 0 /\ req.Prompt = ""
    THEN "either messages or prompt must be provided"
  ELSE IF req.MaxTokens = 0 THEN "max_tokens is required"
  ELSE NoErr

Claude_TextOf(part) == IF part.Type = "text" THEN GetText(part) ELSE ""

Claude_extractTextFromMediaMessages(parts) == ConcatText(Map(Claude_TextOf, parts))

\* the result is a pointer: <<>> is nil
convertClaudePartToUnified(part) ==
  CASE part.Type = "image" /\ part.Source # Nil ->
         <<[Type |-> "image", Text |-> "", MediaType |-> part.Source[1].MediaType,
            Data |-> IF part.Source[1].Type = "base64" THEN part.Source[1].Data ELSE "",
            ImageURL |-> IF part.Source[1].Type = "url"
                           THEN Some([URL |-> part.Source[1].Url, Detail |-> ""]) ELSE Nil,
            Metadata |-> Nil]>>
    [] part.Type = "document" ->
         <<[Type |-> "document", Text |-> "", MediaType |-> "", Data |-> "", ImageURL |-> Nil,
            Metadata |-> Some(part.Source)]>>
    [] OTHER -> <<>>

convertUnifiedPartToClaude(part) ==
  CASE part.Type = "image" ->
         <<[Claude_NoPart EXCEPT
              !.Type = "image",
              !.Source = IF part.Data # ""
                           THEN Some([Type |-> "base64", MediaType |-> part.MediaType,
                                      Data |-> part.Data, Url |-> ""])
                         ELSE IF part.ImageURL # Nil
                           THEN Some([Type |-> "url", MediaType |-> "", Data |-> "",
                                      Url |-> part.ImageURL[1].URL])
                         ELSE Nil]>>
    [] part.Type = "document" ->
         <<[Claude_NoPart EXCEPT
              !.Type = "document",
              !.Source = Some([Type |-> "base64", MediaType |-> part.MediaType,
                               Data |-> part.Data, Url |-> ""])]>>
    [] OTHER -> <<>>

Claude_ToolUseToUnified(part) ==
  IF part.Type = "tool_use"
    THEN <<[ID |-> part.Id, Type |-> "function", Name |-> part.Name,
            Arguments |-> convertAnyToMap(part.Input)]>>
    ELSE <<>>

\* the tool_result blocks of a message, in order
Claude_ToolResults(parts) == SelectSeq(parts, LAMBDA p : p.Type = "tool_result")

Claude_StringToolResults(parts) ==
  SelectSeq(parts, LAMBDA p : p.Type = "tool_result" /\ p.Content.t = "string")

\* every tool_result block assigns ToolCallID, and Content when its content is a
\* string: the last assignment is the one that stays
Claude_MessageToUnified(msg) ==
  IF IsStringContent(msg)
    THEN [Role |-> msg.Role, Name |-> "", Content |-> GetStringContent(msg),
          Parts |-> <<>>, ToolCalls |-> <<>>, ToolCallID |-> ""]
  ELSE IF ParseContent(msg).err # NoErr
    THEN [Role |-> msg.Role, Name |-> "", Content |-> "",
          Parts |-> <<>>, ToolCalls |-> <<>>, ToolCallID |-> ""]
  ELSE LET parts == ParseContent(msg).val[1]
           results == Claude_ToolResults(parts)
           strings == Claude_StringToolResults(parts)
       IN  [Role |-> msg.Role, Name |-> "",
            Content |-> IF strings # <<>> THEN strings[Len(strings)].Content.s
                        ELSE Claude_extractTextFromMediaMessages(parts),
            Parts |-> Flatten(Map(convertClaudePartToUnified, parts)),
            ToolCalls |-> Flatten(Map(Claude_ToolUseToUnified, parts)),
            ToolCallID |-> IF results # <<>> THEN results[Len(results)].ToolUseId ELSE ""]

Claude_ToolToUnified(tool) ==
  [Type |-> "function", Name |-> tool.Name, Description |-> tool.Description,
   Parameters |-> tool.InputSchema]

\* MaxTokens is not copied: the unified request keeps the zero value
Claude_ToUnified(req) ==
  IF req.kind # "claude.ClaudeRequest"
    THEN Fail("invalid request type for Claude transformer")
  ELSE IF Claude_ValidateRequest(req) # NoErr
    THEN Fail("validation failed: " \o Claude_ValidateRequest(req))
  ELSE Ok([Model |-> req.Model,
           MaxTokens |-> 0,
           Stream |-> req.Stream,
           StopSequences |-> req.StopSequences,
           Temperature |-> req.Temperature,
           TopP |-> Some(req.TopP),
           SystemPrompt |-> IF req.System.t = "nil" THEN ""
                            ELSE IF IsStringSystem(req) THEN GetStringSystem(req)
                            ELSE Claude_extractTextFromMediaMessages(ParseSystem(req)),
           Messages |-> (IF req.Prompt # ""
                           THEN <<[Role |-> "user", Name |-> "", Content |-> req.Prompt,
                                   Parts |-> <<>>, ToolCalls |-> <<>>, ToolCallID |-> ""]>>
                           ELSE <<>>)
                        \o Map(Claude_MessageToUnified, req.Messages),
           Tools |-> Map(Claude_ToolToUnified, req.Tools)])

Claude_ToolUseFromUnified(toolCall) ==
  [Claude_NoPart EXCEPT !.Type = "tool_use", !.Id = toolCall.ID, !.Name = toolCall.Name,
                        !.Input = toolCall.Arguments]

Claude_MessageFromUnified(unifiedMsg) ==
  IF unifiedMsg.Content # "" /\ Len(unifiedMsg.Parts) = 0 /\ Len(unifiedMsg.ToolCalls) = 0
    THEN [Role |-> unifiedMsg.Role, Content |-> AnyString(unifiedMsg.Content)]
    ELSE [Role |-> unifiedMsg.Role,
          Content |-> AnyParts(
            (IF unifiedMsg.Content # ""
               THEN <<[Claude_NoPart EXCEPT !.Type = "text", !.Text = Some(unifiedMsg.Content)]>>
               ELSE <<>>)
            \o Flatten(Map(convertUnifiedPartToClaude, unifiedMsg.Parts))
            \o Map(Claude_ToolUseFromUnified, unifiedMsg.ToolCalls)
            \o (IF unifiedMsg.ToolCallID # ""
                  THEN <<[Claude_NoPart EXCEPT !.Type = "tool_result",
                                               !.ToolUseId = unifiedMsg.ToolCallID,
                                               !.Content = AnyString(unifiedMsg.Content)]>>
                  ELSE <<>>))]

\* a conversion that emits only the function tool named f
Claude_ToolFromUnified_FunctionNamedF(unifiedTool) ==
  IF unifiedTool.Type = "function" /\ unifiedTool.Name = "f"
    THEN <<[Name |-> unifiedTool.Name, Description |-> unifiedTool.Description,
            InputSchema |-> unifiedTool.Parameters]>>
    ELSE <<>>

Claude_ToolFromUnified(unifiedTool) ==
  IF unifiedTool.Type = "function"
    THEN <<[Name |-> unifiedTool.Name, Description |-> unifiedTool.Description,
            InputSchema |-> unifiedTool.Parameters]>>
    ELSE <<>>

Claude_FromUnified(unifiedRequest) ==
  Ok([kind |-> "claude.ClaudeRequest",
      Model |-> unifiedRequest.Model,
      MaxTokens |-> unifiedRequest.MaxTokens,
      Stream |-> unifiedRequest.Stream,
      Prompt |-> "",
      Temperature |-> unifiedRequest.Temperature,
      TopP |-> IF unifiedRequest.TopP # Nil THEN unifiedRequest.TopP[1] ELSE 0,
      StopSequences |-> unifiedRequest.StopSequences,
      System |-> IF unifiedRequest.SystemPrompt # ""
                   THEN AnyString(unifiedRequest.SystemPrompt) ELSE AnyNil,
      Messages |-> Map(Claude_MessageFromUnified, unifiedRequest.Messages),
      Tools |-> Flatten(Map(Claude_ToolFromUnified, unifiedRequest.Tools))])

-----------------------------------------------------------------------------
(* OpenAI adapter: responses *)

OpenAI_ResponseMessageToUnified(msg) ==
  [Role |-> msg.Role, Name |-> msg.Name, Content |-> msg.Content,
   Parts |-> Map(OpenAI_PartToUnified, msg.MultiContent),
   ToolCalls |-> Map(OpenAI_ToolCallToUnified, msg.ToolCalls),
   ToolCallID |-> ""]

OpenAI_ChoiceToUnified(choice) ==
  [Index |-> choice.Index, FinishReason |-> choice.FinishReason,
   Message |-> OpenAI_ResponseMessageToUnified(choice.Message)]

OpenAI_UsageToUnified(usage) ==
  [PromptTokens |-> usage.PromptTokens, CompletionTokens |-> usage.CompletionTokens,
   TotalTokens |-> usage.TotalTokens, CacheReadTokens |-> 0, CacheWriteTokens |-> 0]

OpenAI_ResponseToUnified(resp) ==
  IF resp.kind # "openai.ChatCompletionResponse"
    THEN Fail("invalid response type for OpenAI transformer")
  ELSE Ok([ID |-> resp.ID, Object |-> resp.Object, Model |-> resp.Model,
           Provider |-> ProviderOpenAI,
           Usage |-> Some(OpenAI_UsageToUnified(resp.Usage)),
           Choices |-> Map(OpenAI_ChoiceToUnified, resp.Choices),
           Error |-> Nil])

OpenAI_ResponseMessageFromUnified(msg) ==
  [Role |-> msg.Role, Name |-> msg.Name, Content |-> msg.Content,
   MultiContent |-> Map(OpenAI_PartFromUnified, msg.Parts),
   ToolCalls |-> Map(OpenAI_ToolCallFromUnified, msg.ToolCalls),
   ToolCallID |-> ""]

OpenAI_ChoiceFromUnified(unifiedChoice) ==
  [Index |-> unifiedChoice.Index, FinishReason |-> unifiedChoice.FinishReason,
   Message |-> OpenAI_ResponseMessageFromUnified(unifiedChoice.Message)]

OpenAI_ResponseFromUnified(unifiedResponse) ==
  Ok([kind |-> "openai.ChatCompletionResponse",
      ID |-> unifiedResponse.ID, Object |-> unifiedResponse.Object,
      Model |-> unifiedResponse.Model,
      Usage |-> IF unifiedResponse.Usage # Nil
                  THEN [PromptTokens |-> unifiedResponse.Usage[1].PromptTokens,
                        CompletionTokens |-> unifiedResponse.Usage[1].CompletionTokens,
                        TotalTokens |-> unifiedResponse.Usage[1].TotalTokens,
                        PromptTokensDetails |-> Nil]
                  ELSE [PromptTokens |-> 0, CompletionTokens |-> 0, TotalTokens |-> 0,
                        PromptTokensDetails |-> Nil],
      Choices |-> Map(OpenAI_ChoiceFromUnified, unifiedResponse.Choices)])

-----------------------------------------------------------------------------
(* Gemini adapter: responses *)

convertGeminiFinishReason(reason) ==
  CASE reason = "STOP" -> "stop"
    [] reason = "MAX_TOKENS" -> "length"
    [] reason = "SAFETY" -> "content_filter"
    [] reason = "RECITATION" -> "content_filter"
    [] OTHER -> reason

convertUnifiedFinishReasonToGemini(reason) ==
  CASE reason = "stop" -> "STOP"
    [] reason = "length" -> "MAX_TOKENS"
    [] reason = "content_filter" -> "SAFETY"
    [] OTHER -> "STOP"

\* candidate number i of the response (the Go index is i - 1)
Gemini_CandidateToUnified(resp, i) ==
  LET candidate == resp.Candidates[i]
  IN  [Index |-> i - 1,
       Message |-> [Role |-> convertGeminiRoleToUnified(candidate.Content.Role), Name |-> "",
                    Content |-> Gemini_extractTextFromParts(candidate.Content.Parts),
                    Parts |-> Flatten(Map(Gemini_NonTextPartToUnified, candidate.Content.Parts)),
                    ToolCalls |-> Flatten(Map(Gemini_FunctionCallToUnified,
                                              candidate.Content.Parts)),
                    ToolCallID |-> ""],
       FinishReason |-> IF candidate.FinishReason # Nil
                          THEN convertGeminiFinishReason(candidate.FinishReason[1])
                          ELSE ""]

Gemini_UsageToUnified(usage) ==
  IF usage.TotalTokenCount > 0
    THEN Some([PromptTokens |-> usage.PromptTokenCount,
               CompletionTokens |-> usage.CandidatesTokenCount,
               TotalTokens |-> usage.TotalTokenCount,
               CacheReadTokens |-> 0, CacheWriteTokens |-> 0])
    ELSE Nil

Gemini_ResponseToUnified(resp) ==
  IF resp.kind # "gemini.GeminiChatResponse"
    THEN Fail("invalid response type for Gemini transformer")
  ELSE Ok([ID |-> "", Object |-> "chat.completion", Model |-> "",
           Provider |-> ProviderGemini,
           Usage |-> Gemini_UsageToUnified(resp.UsageMetadata),
           Choices |-> [i \in 1..Len(resp.Candidates) |-> Gemini_CandidateToUnified(resp, i)],
           Error |-> Nil])

Gemini_CandidateFromUnified(unifiedChoice) ==
  [Index |-> unifiedChoice.Index,
   Content |-> Gemini_ContentFromUnified(unifiedChoice.Message),
   FinishReason |-> IF unifiedChoice.FinishReason # ""
                      THEN Some(convertUnifiedFinishReasonToGemini(unifiedChoice.FinishReason))
                      ELSE Nil]

Gemini_ResponseFromUnified(unifiedResponse) ==
  Ok([kind |-> "gemini.GeminiChatResponse",
      UsageMetadata |-> IF unifiedResponse.Usage # Nil
                          THEN [PromptTokenCount |-> unifiedResponse.Usage[1].PromptTokens,
                                CandidatesTokenCount |-> unifiedResponse.Usage[1].CompletionTokens,
                                TotalTokenCount |-> unifiedResponse.Usage[1].TotalTokens]
                          ELSE [PromptTokenCount |-> 0, CandidatesTokenCount |-> 0,
                                TotalTokenCount |-> 0],
      Candidates |-> Map(Gemini_CandidateFromUnified, unifiedResponse.Choices)])

-----------------------------------------------------------------------------
(* Claude adapter: responses *)

Claude_UsageToUnified(usage) ==
  [PromptTokens |-> usage.InputTokens, CompletionTokens |-> usage.OutputTokens,
   TotalTokens |-> usage.InputTokens + usage.OutputTokens,
   CacheReadTokens |-> usage.CacheReadInputTokens,
   CacheWriteTokens |-> usage.CacheCreationInputTokens]

Claude_ResponseTextOf(content) ==
  IF content.Type = "text" /\ content.Text # Nil THEN GetText(content) ELSE ""

Claude_ResponsePartToUnified(content) ==
  IF content.Type # "text" THEN convertClaudePartToUnified(content) ELSE <<>>

Claude_ResponseChoices(resp) ==
  IF resp.Completion # ""
    THEN <<[Index |-> 0, FinishReason |-> resp.StopReason,
            Message |-> [Role |-> "assistant", Name |-> "", Content |-> resp.Completion,
                         Parts |-> <<>>, ToolCalls |-> <<>>, ToolCallID |-> ""]]>>
  ELSE IF Len(resp.Content) > 0
    THEN <<[Index |-> 0, FinishReason |-> resp.StopReason,
            Message |-> [Role |-> resp.Role, Name |-> "",
                         Content |-> ConcatText(Map(Claude_ResponseTextOf, resp.Content)),
                         Parts |-> Flatten(Map(Claude_ResponsePartToUnified, resp.Content)),
                         ToolCalls |-> Flatten(Map(Claude_ToolUseToUnified, resp.Content)),
                         ToolCallID |-> ""]]>>
  ELSE <<>>

Claude_ResponseToUnified(resp) ==
  IF resp.kind # "claude.ClaudeResponse"
    THEN Fail("invalid response type for Claude transformer")
  ELSE IF resp.Error # Nil
    THEN Ok([ID |-> resp.Id, Object |-> "chat.completion", Model |-> resp.Model,
             Provider |-> ProviderClaude, Usage |-> Nil, Choices |-> <<>>,
             Error |-> Some([Type |-> resp.Error[1].Type, Message |-> resp.Error[1].Message])])
  ELSE Ok([ID |-> resp.Id, Object |-> "chat.completion", Model |-> resp.Model,
           Provider |-> ProviderClaude,
           Usage |-> IF resp.Usage # Nil THEN Some(Claude_UsageToUnified(resp.Usage[1])) ELSE Nil,
           Choices |-> Claude_ResponseChoices(resp),
           Error |-> Nil])

Claude_NoResponse ==
  [kind |-> "claude.ClaudeResponse", Id |-> "", Type |-> "", Role |-> "", Model |-> "",
   Content |-> <<>>, Completion |-> "", StopReason |-> "", Usage |-> Nil, Error |-> Nil]

\* only Choices[0] is read
Claude_ResponseContentFromUnified(choice) ==
  (IF choice.Message.Content # ""
     THEN <<[Claude_NoPart EXCEPT !.Type = "text", !.Text = Some(choice.Message.Content)]>>
     ELSE <<>>)
  \o Flatten(Map(convertUnifiedPartToClaude, choice.Message.Parts))
  \o Map(Claude_ToolUseFromUnified, choice.Message.ToolCalls)

Claude_ResponseFromUnified(unifiedResponse) ==
  LET resp == [Claude_NoResponse EXCEPT !.Id = unifiedResponse.ID, !.Type = "message",
                                        !.Model = unifiedResponse.Model]
      usage == IF unifiedResponse.Usage # Nil
                 THEN Some([InputTokens |-> unifiedResponse.Usage[1].PromptTokens,
                            OutputTokens |-> unifiedResponse.Usage[1].CompletionTokens,
                            CacheReadInputTokens |-> unifiedResponse.Usage[1].CacheReadTokens,
                            CacheCreationInputTokens |-> unifiedResponse.Usage[1].CacheWriteTokens])
                 ELSE Nil
  IN  IF unifiedResponse.Error # Nil
        THEN Ok([resp EXCEPT !.Error = Some([Type |-> unifiedResponse.Error[1].Type,
                                             Message |-> unifiedResponse.Error[1].Message])])
      ELSE IF Len(unifiedResponse.Choices) > 0
        THEN Ok([resp EXCEPT
                   !.Usage = usage,
                   !.Role = unifiedResponse.Choices[1].Message.Role,
                   !.StopReason = unifiedResponse.Choices[1].FinishReason,
                   !.Content = Claude_ResponseContentFromUnified(unifiedResponse.Choices[1])])
      ELSE Ok([resp EXCEPT !.Usage = usage])

-----------------------------------------------------------------------------
(* The adapter behind a provider name *)

ValidateRequest(p, req) ==
  CASE p = ProviderOpenAI -> OpenAI_ValidateRequest(req)
    [] p = ProviderGemini -> Gemini_ValidateRequest(req)
    [] p = ProviderClaude -> Claude_ValidateRequest(req)

ToUnified(p, req) ==
  CASE p = ProviderOpenAI -> OpenAI_ToUnified(req)
    [] p = ProviderGemini -> Gemini_ToUnified(req)
    [] p = ProviderClaude -> Claude_ToUnified(req)

FromUnified(p, unifiedRequest) ==
  CASE p = ProviderOpenAI -> OpenAI_FromUnified(unifiedRequest)
    [] p = ProviderGemini -> Gemini_FromUnified(unifiedRequest)
    [] p = ProviderClaude -> Claude_FromUnified(unifiedRequest)

ResponseToUnified(p, resp) ==
  CASE p = ProviderOpenAI -> OpenAI_ResponseToUnified(resp)
    [] p = ProviderGemini -> Gemini_ResponseToUnified(resp)
    [] p = ProviderClaude -> Claude_ResponseToUnified(resp)

ResponseFromUnified(p, unifiedResponse) ==
  CASE p = ProviderOpenAI -> OpenAI_ResponseFromUnified(unifiedResponse)
    [] p = ProviderGemini -> Gemini_ResponseFromUnified(unifiedResponse)
    [] p = ProviderClaude -> Claude_ResponseFromUnified(unifiedResponse)

-----------------------------------------------------------------------------
(* The direct Claude transformer: Do(typ, src, dst) writes through the     *)
(* pointer dst.  The result of a Do is [err, dst, panic]: the error it     *)
(* returns, the object behind dst when it ends, and whether it ended in a  *)
(* run-time panic instead of returning.                                    *)

DoReturn(e, d) == [err |-> e, dst |-> d, panic |-> FALSE]

DoPanic(e, d) == [err |-> e, dst |-> d, panic |-> TRUE]

toJSONString(v) == MarshalMap(v)

\* ParseMediaContent of a tool_result block, marshalled again
Claude_MediaContentJSON(content) ==
  IF content.Content.t = "parts"
    THEN "[" \o Claude_extractTextFromMediaMessages(content.Content.parts) \o "]"
    ELSE "null"

Claude_OpenAIMessage(role) ==
  [Role |-> role, Name |-> "", Content |-> "", MultiContent |-> <<>>, ToolCalls |-> <<>>,
   ToolCallID |-> ""]

Claude_SystemToOpenAI(claudeReq) ==
  IF claudeReq.System.t = "nil" THEN <<>>
  ELSE IF IsStringSystem(claudeReq) /\ GetStringSystem(claudeReq) # ""
    THEN <<[Claude_OpenAIMessage("system") EXCEPT !.Content = GetStringSystem(claudeReq)]>>
  ELSE IF Len(ParseSystem(claudeReq)) > 0
    THEN <<[Claude_OpenAIMessage("system") EXCEPT
              !.MultiContent = Map(LAMBDA system : [Type |-> "text", Text |-> GetText(system),
                                                    ImageURL |-> Nil],
                                   ParseSystem(claudeReq))]>>
  ELSE <<>>

Claude_ContentToOpenAIPart(content) ==
  CASE content.Type = "text" -> <<[Type |-> "text", Text |-> GetText(content), ImageURL |-> Nil]>>
    [] content.Type = "image" ->
         <<[Type |-> "image_url", Text |-> "",
            ImageURL |-> Some([URL |-> CASE content.Source[1].Type = "base64" ->
                                              "data:" \o content.Source[1].MediaType
                                                \o ";base64," \o content.Source[1].Data
                                         [] content.Source[1].Type = "url" -> content.Source[1].Url
                                         [] OTHER -> "",
                               Detail |-> ""])]>>
    [] OTHER -> <<>>

Claude_ContentToOpenAIToolCall(content) ==
  IF content.Type = "tool_use"
    THEN <<[ID |-> content.Id, Type |-> "function",
            Function |-> [Name |-> content.Name, Arguments |-> toJSONString(content.Input)]]>>
    ELSE <<>>

Claude_ContentToOpenAIToolMessage(content) ==
  IF content.Type = "tool_result"
    THEN <<[Claude_OpenAIMessage("tool") EXCEPT
              !.Name = content.Name, !.ToolCallID = content.ToolUseId,
              !.Content = IF IsStringContent(content) THEN GetStringContent(content)
                          ELSE Claude_MediaContentJSON(content)]>>
    ELSE <<>>

\* content.Source.Type is read through a nil pointer
Claude_ImageWithoutSource(content) == content.Type = "image" /\ content.Source = Nil

\* a conversion that emits the message itself before its tool messages
Claude_MessageToOpenAI_ToolMessagesLast(claudeMessage) ==
  LET contents == ParseContent(claudeMessage).val[1]
      parts == Flatten(Map(Claude_ContentToOpenAIPart, contents))
      toolCalls == Flatten(Map(Claude_ContentToOpenAIToolCall, contents))
  IN  [out |-> (IF Len(parts) > 0 \/ Len(toolCalls) > 0
                  THEN <<[Claude_OpenAIMessage(claudeMessage.Role) EXCEPT
                            !.MultiContent = parts, !.ToolCalls = toolCalls]>>
                  ELSE <<>>)
               \o Flatten(Map(Claude_ContentToOpenAIToolMessage, contents)),
       err |-> NoErr, panic |-> FALSE]

\* one Claude message: the tool messages of its tool_result blocks, then the
\* message itself unless it is empty
Claude_MessageToOpenAI(claudeMessage) ==
  IF IsStringContent(claudeMessage)
    THEN [out |-> IF GetStringContent(claudeMessage) # ""
                    THEN <<[Claude_OpenAIMessage(claudeMessage.Role) EXCEPT
                              !.Content = GetStringContent(claudeMessage)]>>
                    ELSE <<>>,
          err |-> NoErr, panic |-> FALSE]
  ELSE IF ParseContent(claudeMessage).err # NoErr
    THEN [out |-> <<>>, err |-> ParseContent(claudeMessage).err, panic |-> FALSE]
  ELSE LET contents == ParseContent(claudeMessage).val[1]
           parts == Flatten(Map(Claude_ContentToOpenAIPart,
                                SelectSeq(contents, LAMBDA c : ~Claude_ImageWithoutSource(c))))
           toolCalls == Flatten(Map(Claude_ContentToOpenAIToolCall, contents))
       IN  IF \E i \in 1..Len(contents) : Claude_ImageWithoutSource(contents[i])
             THEN [out |-> <<>>, err |-> "panic: nil pointer dereference", panic |-> TRUE]
             ELSE [out |-> Flatten(Map(Claude_ContentToOpenAIToolMessage, contents))
                           \o (IF Len(parts) > 0 \/ Len(toolCalls) > 0
                                 THEN <<[Claude_OpenAIMessage(claudeMessage.Role) EXCEPT
                                           !.MultiContent = parts, !.ToolCalls = toolCalls]>>
                                 ELSE <<>>),
                   err |-> NoErr, panic |-> FALSE]

\* the message loop: it stops at the first message that fails
RECURSIVE Claude_MessagesToOpenAI(_)
Claude_MessagesToOpenAI(messages) ==
  IF messages = <<>> THEN [out |-> <<>>, err |-> NoErr, panic |-> FALSE]
  ELSE LET first == Claude_MessageToOpenAI(Head(messages))
           rest == Claude_MessagesToOpenAI(Tail(messages))
       IN  IF first.err # NoErr THEN first
           ELSE IF rest.err # NoErr THEN rest
           ELSE [out |-> first.out \o rest.out, err |-> NoErr, panic |-> FALSE]

Claude_ToolToOpenAI(claudeTool) ==
  [Type |-> "function",
   Function |-> Some([Name |-> claudeTool.Name, Description |-> claudeTool.Description,
                      Parameters |-> claudeTool.InputSchema])]

\* the scalar fields and the tools of oaiReq are assigned before the message
\* loop, oaiReq.Messages after it
transformRequestToOpenAI(claudeReq, oaiReq) ==
  LET assigned == [oaiReq EXCEPT
                     !.Model = claudeReq.Model,
                     !.MaxTokens = claudeReq.MaxTokens,
                     !.Temperature = IF claudeReq.Temperature = Nil THEN 0
                                     ELSE claudeReq.Temperature[1],
                     !.TopP = claudeReq.TopP,
                     !.Stream = claudeReq.Stream,
                     !.Stop = claudeReq.StopSequences,
                     !.Tools = Map(Claude_ToolToOpenAI, claudeReq.Tools)]
      messages == Claude_MessagesToOpenAI(claudeReq.Messages)
  IN  IF messages.panic THEN DoPanic(messages.err, assigned)
      ELSE IF messages.err # NoErr THEN DoReturn(messages.err, assigned)
      ELSE DoReturn(NoErr, [assigned EXCEPT
                              !.Messages = Claude_SystemToOpenAI(claudeReq) \o messages.out])

Claude_transformRequest(src, target) ==
  IF src.kind # "claude.ClaudeRequest"
    THEN DoReturn("invalid source type for Claude request transformer", target)
  ELSE CASE target.kind = "openai.ChatCompletionRequest" -> transformRequestToOpenAI(src, target)
         [] target.kind = "claude.ClaudeRequest" -> DoReturn(NoErr, target)
         [] target.kind = "gemini.GeminiChatRequest" -> DoReturn("gemini is not supported", target)
         [] OTHER -> DoReturn("invalid target type for Claude transformer", target)

Claude_transformResponse(src, target) ==
  DoReturn("response transformation not yet implemented", target)

Claude_transformStreamResponse(src, target) ==
  DoReturn("stream response transformation not yet implemented", target)

Claude_transformChunk(src, target) ==
  DoReturn("chunk transformation not yet implemented", target)

Claude_Do(typ, src, target) ==
  CASE typ = TransformerTypeRequest -> Claude_transformRequest(src, target)
    [] typ = TransformerTypeResponse -> Claude_transformResponse(src, target)
    [] typ = TransformerTypeStream -> Claude_transformStreamResponse(src, target)
    [] typ = TransformerTypeChunk -> Claude_transformChunk(src, target)
    [] OTHER -> DoReturn("unsupported transformation type: " \o typ, target)

-----------------------------------------------------------------------------
(* The direct OpenAI transformer *)

stopReasonOpenAI2Claude(reason) ==
  CASE reason = "stop" -> "end_turn"
    [] reason = "stop_sequence" -> "stop_sequence"
    [] reason = "max_tokens" -> "max_tokens"
    [] reason = "tool_calls" -> "tool_use"
    [] OTHER -> reason

OpenAI_ToolCallToClaude(toolCall) ==
  [Claude_NoPart EXCEPT !.Type = "tool_use", !.Id = toolCall.ID, !.Name = toolCall.Function.Name,
                        !.Input = Some(toolCall.Function.Arguments)]

OpenAI_ChoiceToClaude(choice) ==
  IF choice.FinishReason = "tool_calls"
    THEN Map(OpenAI_ToolCallToClaude, choice.Message.ToolCalls)
    ELSE <<[Claude_NoPart EXCEPT !.Type = "text", !.Text = Some(choice.Message.Content)]>>

\* a conversion that copies the cache counts and leaves the input tokens whole
OpenAI_UsageToClaude_NotSubtracted(usage) ==
  LET details == usage.PromptTokensDetails
  IN  [InputTokens |-> usage.PromptTokens,
       OutputTokens |-> usage.CompletionTokens,
       CacheCreationInputTokens |-> IF details # Nil THEN details[1].CacheCreationInputTokens
                                    ELSE 0,
       CacheReadInputTokens |-> IF details # Nil THEN details[1].CacheReadInputTokens ELSE 0]

OpenAI_UsageToClaude(usage) ==
  LET details == usage.PromptTokensDetails
      creation == IF details # Nil /\ details[1].CacheCreationInputTokens > 0
                    THEN details[1].CacheCreationInputTokens ELSE 0
      read == IF details # Nil /\ details[1].CacheReadInputTokens > 0
                THEN details[1].CacheReadInputTokens ELSE 0
  IN  [InputTokens |-> usage.PromptTokens - creation - read,
       OutputTokens |-> usage.CompletionTokens,
       CacheCreationInputTokens |-> creation,
       CacheReadInputTokens |-> read]

transformResponseToClaude(oaiResp, claudeResp) ==
  DoReturn(NoErr,
    [claudeResp EXCEPT
       !.Id = oaiResp.ID, !.Type = "message", !.Role = "assistant", !.Model = oaiResp.Model,
       !.StopReason = IF Len(oaiResp.Choices) > 0
                        THEN stopReasonOpenAI2Claude(
                               oaiResp.Choices[Len(oaiResp.Choices)].FinishReason)
                        ELSE claudeResp.StopReason,
       !.Content = claudeResp.Content \o Flatten(Map(OpenAI_ChoiceToClaude, oaiResp.Choices)),
       !.Usage = Some(OpenAI_UsageToClaude(oaiResp.Usage))])

transformRequestToClaude(oaiReq, claudeReq) ==
  DoReturn("OpenAI -> Claude request transformation not yet implemented", claudeReq)

Gemini_NoPart ==
  [Text |-> "", InlineData |-> Nil, FunctionCall |-> Nil, FunctionResponse |-> Nil,
   FileData |-> Nil]

SafetyCategories ==
  <<"HARM_CATEGORY_HARASSMENT", "HARM_CATEGORY_HATE_SPEECH", "HARM_CATEGORY_SEXUALLY_EXPLICIT",
    "HARM_CATEGORY_DANGEROUS_CONTENT", "HARM_CATEGORY_CIVIC_INTEGRITY">>

OpenAI_ToolToGemini(tool) ==
  CASE tool.Function[1].Name \in {"googleSearch", "google_search"} ->
         [Gemini_NoTool EXCEPT !.GoogleSearch = Some("{}")]
    [] tool.Function[1].Name \in {"codeExecution", "code_execution"} ->
         [Gemini_NoTool EXCEPT !.CodeExecution = Some("{}")]
    [] OTHER ->
         [Gemini_NoTool EXCEPT !.FunctionDeclarations = [t |-> "function", decls |-> tool.Function]]

\* the text a system or developer message contributes to the system instruction
OpenAI_SystemText(message) ==
  LET texts == SelectSeq(message.MultiContent, LAMBDA part : part.Type = "text")
  IN  IF message.Content = "" /\ Len(texts) > 0 THEN texts[1].Text ELSE message.Content

\* json.Unmarshal of a tool message's content into a map, then into a slice
OpenAI_ToolContentToResponse(content) ==
  CASE content \in {"{}", "null"} -> [t |-> "object", text |-> content]
    [] content = "[]" -> [t |-> "result", text |-> content]
    [] OTHER -> [t |-> "content", text |-> content]

\* a conversion in which the recorded tool call wins over the message's name
OpenAI_ToolMessageToGemini_LookupFirst(message, toolCallIds) ==
  [Role |-> "user",
   Parts |-> <<[Gemini_NoPart EXCEPT
                  !.FunctionResponse =
                     Some([Name |-> IF message.ToolCallID \in DOMAIN toolCallIds
                                      THEN toolCallIds[message.ToolCallID] ELSE message.Name,
                           Response |-> OpenAI_ToolContentToResponse(message.Content)])]>>]

OpenAI_ToolMessageToGemini(message, toolCallIds) ==
  [Role |-> "user",
   Parts |-> <<[Gemini_NoPart EXCEPT
                  !.FunctionResponse =
                     Some([Name |-> IF message.Name = "" /\ message.ToolCallID \in DOMAIN toolCallIds
                                      THEN toolCallIds[message.ToolCallID] ELSE message.Name,
                           Response |-> OpenAI_ToolContentToResponse(message.Content)])]>>]

OpenAI_ToolCallToGemini(call) ==
  [Gemini_NoPart EXCEPT
     !.FunctionCall = Some([FunctionName |-> call.Function.Name,
                            Arguments |-> IF call.Function.Arguments.json \in {"object", "null"}
                                            THEN UnmarshalMap(call.Function.Arguments)
                                            ELSE Some(call.Function.Arguments)])]

\* strings.SplitN(URL, ",", 2) of a data: URL: the media type and the data
DataURLs ==
  {[url |-> "data:" \o mediaType \o ";base64," \o data, mediaType |-> mediaType, data |-> data] :
     mediaType \in {"image/png"}, data \in {"AAAA"}}

OpenAI_PartToGemini(ocontent) ==
  CASE ocontent.Type = "text" -> <<[Gemini_NoPart EXCEPT !.Text = ocontent.Text]>>
    [] ocontent.Type = "image_url" /\ (\E d \in DataURLs : d.url = ocontent.ImageURL[1].URL) ->
         LET d == CHOOSE d \in DataURLs : d.url = ocontent.ImageURL[1].URL
         IN  <<[Gemini_NoPart EXCEPT
                  !.InlineData = Some([MimeType |-> d.mediaType, Data |-> d.data])]>>
    [] OTHER -> <<>>

OpenAI_ChatMessageToGemini(message) ==
  [Role |-> IF message.Role = "assistant" THEN "model" ELSE message.Role,
   Parts |-> Map(OpenAI_ToolCallToGemini, message.ToolCalls)
             \o (IF message.Content # "" THEN <<[Gemini_NoPart EXCEPT !.Text = message.Content]>>
                 ELSE Flatten(Map(OpenAI_PartToGemini, message.MultiContent)))]

\* toolCallIds after a message: every tool call of a user or assistant message
\* records its function name under its id
RECURSIVE OpenAI_RecordToolCalls(_, _)
OpenAI_RecordToolCalls(toolCallIds, calls) ==
  IF calls = <<>> THEN toolCallIds
  ELSE OpenAI_RecordToolCalls(
         [id \in DOMAIN toolCallIds \cup {Head(calls).ID} |->
            IF id = Head(calls).ID THEN Head(calls).Function.Name ELSE toolCallIds[id]],
         Tail(calls))

\* the message loop, in order: [contents, systemContents]
RECURSIVE OpenAI_MessagesToGemini(_, _)
OpenAI_MessagesToGemini(messages, toolCallIds) ==
  IF messages = <<>> THEN [contents |-> <<>>, systemContents |-> <<>>]
  ELSE LET message == Head(messages)
           ids == IF message.Role \in {"user", "assistant"}
                    THEN OpenAI_RecordToolCalls(toolCallIds, message.ToolCalls)
                    ELSE toolCallIds
           rest == OpenAI_MessagesToGemini(Tail(messages), ids)
       IN  CASE message.Role \in {"system", "developer"} ->
                  [rest EXCEPT !.systemContents = <<OpenAI_SystemText(message)>> \o @]
             [] message.Role = "tool" ->
                  [rest EXCEPT !.contents = <<OpenAI_ToolMessageToGemini(message, toolCallIds)>> \o @]
             [] message.Role \in {"user", "assistant"} ->
                  IF Len(OpenAI_ChatMessageToGemini(message).Parts) > 0
                    THEN [rest EXCEPT !.contents = <<OpenAI_ChatMessageToGemini(message)>> \o @]
                    ELSE rest
             [] OTHER -> rest

\* a join that puts nothing between the texts
JoinLines_NoSeparator(ts) == ConcatText(ts)

\* strings.Join(systemContents, "\n")
RECURSIVE JoinLines(_)
JoinLines(ts) ==
  IF ts = <<>> THEN ""
  ELSE IF Len(ts) = 1 THEN ts[1]
  ELSE ts[1] \o "\n" \o JoinLines(Tail(ts))

\* tool.Function.Name is read through a pointer
OpenAI_ToolDerefsNil(tool) == tool.Function = Nil

\* ocontent.ImageURL.URL is read through a pointer
OpenAI_MessageDerefsNil(message) ==
  /\ message.Role \in {"user", "assistant"}
  /\ message.Content = ""
  /\ \E j \in 1..Len(message.MultiContent) :
       /\ message.MultiContent[j].Type = "image_url"
       /\ message.MultiContent[j].ImageURL = Nil

\* the elements of s before the first one that satisfies Bad
RECURSIVE Before(_, _)
Before(Bad(_), s) ==
  IF s = <<>> \/ Bad(Head(s)) THEN <<>> ELSE <<Head(s)>> \o Before(Bad, Tail(s))

\* geminiReq.Tools and geminiReq.Contents grow by append as the loops run, so a
\* panic leaves what was appended before it
transformRequestToGemini(oaiReq, geminiReq) ==
  LET config == [Temperature |-> IF oaiReq.Temperature = 0 THEN Nil
                                 ELSE Some(oaiReq.Temperature),
                 TopP |-> oaiReq.TopP,
                 MaxOutputTokens |-> oaiReq.MaxTokens,
                 StopSequences |-> <<>>]
      okTools == Before(OpenAI_ToolDerefsNil, oaiReq.Tools)
      okMessages == Before(OpenAI_MessageDerefsNil, oaiReq.Messages)
      started == [geminiReq EXCEPT
                    !.Contents = <<>>, !.GenerationConfig = config,
                    !.SafetySettings = Map(LAMBDA c : [Category |-> c, Threshold |-> "BLOCK_NONE"],
                                           SafetyCategories),
                    !.Tools = geminiReq.Tools \o Map(OpenAI_ToolToGemini, okTools)]
      messages == OpenAI_MessagesToGemini(okMessages, <<>>)
  IN  IF Len(okTools) < Len(oaiReq.Tools)
        THEN DoPanic("panic: nil pointer dereference", started)
      ELSE IF Len(okMessages) < Len(oaiReq.Messages)
        THEN DoPanic("panic: nil pointer dereference",
                     [started EXCEPT !.Contents = messages.contents])
      ELSE DoReturn(NoErr,
             [started EXCEPT
                !.Contents = messages.contents,
                !.SystemInstructions =
                   IF Len(messages.systemContents) > 0
                     THEN Some([Role |-> "",
                                Parts |-> <<[Gemini_NoPart EXCEPT
                                               !.Text = JoinLines(messages.systemContents)]>>])
                     ELSE geminiReq.SystemInstructions])

OpenAI_transformRequest(src, target) ==
  IF src.kind # "openai.ChatCompletionRequest"
    THEN DoReturn("invalid source type for OpenAI transformer", target)
  ELSE CASE target.kind = "claude.ClaudeRequest" -> transformRequestToClaude(src, target)
         [] target.kind = "gemini.GeminiChatRequest" -> transformRequestToGemini(src, target)
         [] OTHER -> DoReturn("target type not supported for OpenAI transformer", target)

OpenAI_transformResponse(src, target) ==
  IF src.kind # "openai.ChatCompletionResponse"
    THEN DoReturn("invalid source type for OpenAI transformer", target)
  ELSE IF target.kind = "claude.ClaudeResponse" THEN transformResponseToClaude(src, target)
  ELSE DoReturn("target type not supported for OpenAI transformer", target)

OpenAI_transformStreamResponse(src, target) ==
  DoReturn("stream response transformation not yet implemented", target)

\* the []*claude.ClaudeResponse case asserts dst to *claude.ClaudeResponse
OpenAI_transformChunk(src, target) ==
  IF src.kind # "openai.ChatCompletionStreamResponse"
    THEN DoReturn("invalid source type for OpenAI transformer", target)
  ELSE IF target.kind = "[]*claude.ClaudeResponse"
    THEN DoPanic("panic: interface conversion", target)
  ELSE DoReturn("target type not supported for OpenAI transformer", target)

OpenAI_Do(typ, src, target) ==
  CASE typ = TransformerTypeRequest -> OpenAI_transformRequest(src, target)
    [] typ = TransformerTypeResponse -> OpenAI_transformResponse(src, target)
    [] typ = TransformerTypeStream -> OpenAI_transformStreamResponse(src, target)
    [] typ = TransformerTypeChunk -> OpenAI_transformChunk(src, target)
    [] OTHER -> DoReturn("unsupported transformation type: " \o typ, target)

-----------------------------------------------------------------------------
(* The two registries.  A registry table is a function from its keys to    *)
(* the registered transformers.  What a registry call returns is a record  *)
(* [val, err, type, calls, panic]: the returned value, the error message   *)
(* ("" for nil), the Type of a UnifiedError or TransformationError, the    *)
(* transformer methods the call invoked, in order, and whether the call    *)
(* ended in a panic.                                                       *)

NoResult == [val |-> Nil, err |-> NoErr, type |-> "", calls |-> <<>>, panic |-> FALSE]

\* the orders in which a range loop may visit the keys of a map
Orders(S) ==
  {order \in [1..Cardinality(S) -> S] :
     \A i, j \in 1..Cardinality(S) : i # j => order[i] # order[j]}

NewTransformationRegistry == <<>>

GetProvider(transformer) == transformer.provider

\* a Register that keeps the adapter already registered for the provider
Register_KeepFirst(r, transformer) ==
  IF GetProvider(transformer) \in DOMAIN r
    THEN r
    ELSE [p \in DOMAIN r \cup {GetProvider(transformer)} |->
            IF p = GetProvider(transformer) THEN transformer ELSE r[p]]

Register(r, transformer) ==
  [p \in DOMAIN r \cup {GetProvider(transformer)} |->
     IF p = GetProvider(transformer) THEN transformer ELSE r[p]]

TransformerNotFound(message) ==
  [NoResult EXCEPT !.err = message, !.type = "transformer_not_found"]

Invoked(transformer, method) == [transformer |-> transformer, method |-> method]

\* a Transform that looks the source provider up twice
Transform_SourceTwice(r, sourceProvider, targetProvider, request) ==
  IF sourceProvider \notin DOMAIN r
    THEN TransformerNotFound("transformer not found for source provider: " \o sourceProvider)
  ELSE LET sourceTransformer == r[sourceProvider]
           targetTransformer == r[sourceProvider]
           unified == ToUnified(GetProvider(sourceTransformer), request)
       IN  IF unified.err # NoErr
             THEN [NoResult EXCEPT !.err = unified.err,
                                   !.calls = <<Invoked(sourceTransformer, "ToUnified")>>]
             ELSE [NoResult EXCEPT
                     !.val = FromUnified(GetProvider(targetTransformer), unified.val[1]).val,
                     !.err = FromUnified(GetProvider(targetTransformer), unified.val[1]).err,
                     !.calls = <<Invoked(sourceTransformer, "ToUnified"),
                                 Invoked(targetTransformer, "FromUnified")>>]

Transform(r, sourceProvider, targetProvider, request) ==
  IF sourceProvider \notin DOMAIN r
    THEN TransformerNotFound("transformer not found for source provider: " \o sourceProvider)
  ELSE IF targetProvider \notin DOMAIN r
    THEN TransformerNotFound("transformer not found for target provider: " \o targetProvider)
  ELSE LET sourceTransformer == r[sourceProvider]
           targetTransformer == r[targetProvider]
           unified == ToUnified(GetProvider(sourceTransformer), request)
       IN  IF unified.err # NoErr
             THEN [NoResult EXCEPT !.err = unified.err,
                                   !.calls = <<Invoked(sourceTransformer, "ToUnified")>>]
             ELSE [NoResult EXCEPT
                     !.val = FromUnified(GetProvider(targetTransformer), unified.val[1]).val,
                     !.err = FromUnified(GetProvider(targetTransformer), unified.val[1]).err,
                     !.calls = <<Invoked(sourceTransformer, "ToUnified"),
                                 Invoked(targetTransformer, "FromUnified")>>]

TransformResponse(r, sourceProvider, targetProvider, response) ==
  IF sourceProvider \notin DOMAIN r
    THEN TransformerNotFound("transformer not found for source provider: " \o sourceProvider)
  ELSE IF targetProvider \notin DOMAIN r
    THEN TransformerNotFound("transformer not found for target provider: " \o targetProvider)
  ELSE LET sourceTransformer == r[sourceProvider]
           targetTransformer == r[targetProvider]
           unified == ResponseToUnified(GetProvider(sourceTransformer), response)
       IN  IF unified.err # NoErr
             THEN [NoResult EXCEPT !.err = unified.err,
                                   !.calls = <<Invoked(sourceTransformer, "ResponseToUnified")>>]
             ELSE [NoResult EXCEPT
                     !.val = ResponseFromUnified(GetProvider(targetTransformer),
                                                 unified.val[1]).val,
                     !.err = ResponseFromUnified(GetProvider(targetTransformer),
                                                 unified.val[1]).err,
                     !.calls = <<Invoked(sourceTransformer, "ResponseToUnified"),
                                 Invoked(targetTransformer, "ResponseFromUnified")>>]

\* a GetAvailableTransformations without the source != target test
GetAvailableTransformations_WithSelf(providers) ==
  LET n == Len(providers)
  IN  [k \in 1..(n * n) |-> [Source |-> providers[((k - 1) \div n) + 1],
                             Target |-> providers[((k - 1) % n) + 1]]]

\* providers: the keys of the table in the order the range loop met them
GetAvailableTransformations(providers) ==
  LET n == Len(providers)
      all == [k \in 1..(n * n) |-> [Source |-> providers[((k - 1) \div n) + 1],
                                    Target |-> providers[((k - 1) % n) + 1]]]
  IN  SelectSeq(all, LAMBDA pair : pair.Source # pair.Target)

\* a GetSupportedProviders whose slice is made with a length instead of a capacity
GetSupportedProviders_MadeWithLength(providers) ==
  [i \in 1..Len(providers) |-> ""] \o providers

GetSupportedProviders(providers) == providers

Direct_Key(sourceProvider, targetProvider) == sourceProvider \o "->" \o targetProvider

Direct_Register(r, sourceProvider, targetProvider, transformer) ==
  [key \in DOMAIN r \cup {Direct_Key(sourceProvider, targetProvider)} |->
     IF key = Direct_Key(sourceProvider, targetProvider) THEN transformer ELSE r[key]]

Direct_GetTransformer(r, sourceProvider, targetProvider) ==
  [transformer |-> IF Direct_Key(sourceProvider, targetProvider) \in DOMAIN r
                     THEN Some(r[Direct_Key(sourceProvider, targetProvider)]) ELSE Nil,
   exists |-> Direct_Key(sourceProvider, targetProvider) \in DOMAIN r]

Do(transformer, typ, src, target) ==
  CASE transformer = "ClaudeTransformer" -> Claude_Do(typ, src, target)
    [] transformer = "OpenAITransformer" -> OpenAI_Do(typ, src, target)

\* [result, dst]: what the call returns and the object behind dst afterwards
Direct_Transform(r, sourceProvider, targetProvider, typ, src, target) ==
  IF ~Direct_GetTransformer(r, sourceProvider, targetProvider).exists
    THEN [result |-> TransformerNotFound("transformer not found for " \o sourceProvider
                                           \o " -> " \o targetProvider),
          dst |-> target]
  ELSE LET transformer == Direct_GetTransformer(r, sourceProvider, targetProvider).transformer[1]
           done == Do(transformer, typ, src, target)
       IN  [result |-> [NoResult EXCEPT !.err = done.err, !.panic = done.panic,
                                        !.calls = <<Invoked(transformer, "Do")>>],
            dst |-> done.dst]

\* strings.Split(key, "->") of a key made of two provider names
Direct_SplitKey(key) ==
  IF \E pair \in Providers \X Providers : key = Direct_Key(pair[1], pair[2])
    THEN CHOOSE pair \in Providers \X Providers : key = Direct_Key(pair[1], pair[2])
    ELSE <<key>>

Direct_PairOf(key) ==
  IF Len(Direct_SplitKey(key)) = 2
    THEN <<[Source |-> Direct_SplitKey(key)[1], Target |-> Direct_SplitKey(key)[2]]>>
    ELSE <<>>

\* keys: the keys of the table in the order the range loop met them
Direct_GetAvailableTransformations(keys) == Flatten(Map(Direct_PairOf, keys))

\* providerMap, whose keys GetSupportedProviders returns in range order
Direct_ProviderMap(r) ==
  {pair.Source : pair \in {Direct_PairOf(key)[1] : key \in {k \in DOMAIN r : Direct_PairOf(k) # <<>>}}}
  \cup {pair.Target : pair \in {Direct_PairOf(key)[1] : key \in {k \in DOMAIN r : Direct_PairOf(k) # <<>>}}}

Direct_GetSupportedProviders(providers) == providers

-----------------------------------------------------------------------------
(* Values the callers pass: zero-valued objects and plain-text payloads *)

OpenAI_NoRequest ==
  [kind |-> "openai.ChatCompletionRequest", Model |-> "", MaxTokens |-> 0,
   MaxCompletionTokens |-> 0, Stream |-> FALSE, Stop |-> <<>>, Temperature |-> 0, TopP |-> 0,
   Messages |-> <<>>, Tools |-> <<>>]

Gemini_NoRequest ==
  [kind |-> "gemini.GeminiChatRequest",
   GenerationConfig |-> [Temperature |-> Nil, TopP |-> 0, MaxOutputTokens |-> 0,
                         StopSequences |-> <<>>],
   SystemInstructions |-> Nil, SafetySettings |-> <<>>, Contents |-> <<>>, Tools |-> <<>>]

Claude_NoRequest ==
  [kind |-> "claude.ClaudeRequest", Model |-> "", MaxTokens |-> 0, Stream |-> FALSE,
   Prompt |-> "", Temperature |-> Nil, TopP |-> 0, StopSequences |-> <<>>, System |-> AnyNil,
   Messages |-> <<>>, Tools |-> <<>>]

OpenAI_TextMessage(role, text) ==
  [Role |-> role, Name |-> "", Content |-> text, MultiContent |-> <<>>, ToolCalls |-> <<>>,
   ToolCallID |-> ""]

Gemini_TextContent(role, text) == [Role |-> role, Parts |-> <<Gemini_TextPart(text)>>]

Claude_TextMessage(role, text) == [Role |-> role, Content |-> AnyString(text)]

OpenAI_Request(model, maxTokens, messages) ==
  [OpenAI_NoRequest EXCEPT !.Model = model, !.MaxTokens = maxTokens, !.Messages = messages]

Gemini_Request(maxTokens, contents) ==
  [Gemini_NoRequest EXCEPT !.GenerationConfig.MaxOutputTokens = maxTokens, !.Contents = contents]

Claude_Request(model, maxTokens, prompt, messages) ==
  [Claude_NoRequest EXCEPT !.Model = model, !.MaxTokens = maxTokens, !.Prompt = prompt,
                           !.Messages = messages]

OpenAI_Usage(prompt, completion, total) ==
  [PromptTokens |-> prompt, CompletionTokens |-> completion, TotalTokens |-> total,
   PromptTokensDetails |-> Nil]

OpenAI_TextResponse(finishReason, text, usage) ==
  [kind |-> "openai.ChatCompletionResponse", ID |-> "id", Object |-> "chat.completion",
   Model |-> "m", Usage |-> usage,
   Choices |-> <<[Index |-> 0, FinishReason |-> finishReason,
                  Message |-> OpenAI_TextMessage("assistant", text)]>>]

Gemini_UsageMetadata(prompt, candidates, total) ==
  [PromptTokenCount |-> prompt, CandidatesTokenCount |-> candidates, TotalTokenCount |-> total]

\* finishReason is a pointer
Gemini_TextResponse(finishReason, text, usage) ==
  [kind |-> "gemini.GeminiChatResponse", UsageMetadata |-> usage,
   Candidates |-> <<[Index |-> 0, FinishReason |-> finishReason,
                     Content |-> Gemini_TextContent("model", text)]>>]

Claude_Usage(input, output) ==
  [InputTokens |-> input, OutputTokens |-> output, CacheReadInputTokens |-> 0,
   CacheCreationInputTokens |-> 0]

\* usage is a pointer
Claude_TextResponse(stopReason, text, usage) ==
  [Claude_NoResponse EXCEPT
     !.Id = "id", !.Type = "message", !.Role = "assistant", !.Model = "m",
     !.StopReason = stopReason, !.Usage = usage,
     !.Content = <<[Claude_NoPart EXCEPT !.Type = "text", !.Text = Some(text)]>>]

OpenAI_Chunk ==
  [kind |-> "openai.ChatCompletionStreamResponse", ID |-> "id", Model |-> "m"]

Claude_NoResponseList == [kind |-> "[]*claude.ClaudeResponse", items |-> <<>>]

-----------------------------------------------------------------------------
(* The registries in use: any sequence of Register calls, and between them *)
(* the other calls of the registry API.  op is the last call with its      *)
(* arguments, res what it returned, dst the object behind the dst pointer  *)
(* of the last call when that was a direct Transform (Nil otherwise),       *)
(* history the Register calls so far.                                      *)

MaxRegister == 3

TransformerIds == {"t1", "t2"}

\* the adapters a caller may pass to the hub Register
HubTransformers == [provider : Providers, id : TransformerIds]

\* what a caller may pass to the direct Register
DirectPairs ==
  {<<ProviderClaude, ProviderOpenAI>>, <<ProviderOpenAI, ProviderGemini>>,
   <<ProviderOpenAI, ProviderOpenAI>>}

DirectTransformers == {"ClaudeTransformer", "OpenAITransformer"}

RegistryRequests ==
  {OpenAI_Request("m", 1, <<OpenAI_TextMessage("user", "a")>>),
   OpenAI_Request("m", 1, <<>>),
   Claude_Request("m", 1, "", <<Claude_TextMessage("user", "a")>>)}

RegistryResponses ==
  {OpenAI_TextResponse("stop", "a", OpenAI_Usage(1, 1, 2)),
   Gemini_TextResponse(Some("STOP"), "a", Gemini_UsageMetadata(1, 1, 2))}

\* the (typ, src, dst) of the direct Transform calls
DirectCalls ==
  {[typ |-> TransformerTypeRequest, dst |-> OpenAI_NoRequest,
    src |-> Claude_Request("m", 1, "", <<Claude_TextMessage("user", "a")>>)],
   [typ |-> TransformerTypeRequest, dst |-> OpenAI_NoRequest,
    src |-> Claude_Request("m", 1, "", <<Claude_TextMessage("user", "a"),
                                         [Role |-> "user", Content |-> AnyOther]>>)],
   [typ |-> TransformerTypeRequest, dst |-> Gemini_NoRequest,
    src |-> OpenAI_Request("m", 1, <<OpenAI_TextMessage("system", "a"),
                                     OpenAI_TextMessage("user", "b")>>)],
   [typ |-> TransformerTypeResponse, dst |-> Claude_NoResponse,
    src |-> OpenAI_TextResponse("stop", "a", OpenAI_Usage(1, 1, 2))],
   [typ |-> TransformerTypeChunk, dst |-> Claude_NoResponseList, src |-> OpenAI_Chunk]}

InitRegistry ==
  /\ design \in {"hub", "direct"}
  /\ transformers = NewTransformationRegistry
  /\ history = <<>>
  /\ op = [name |-> "NewTransformationRegistry"]
  /\ res = NoResult
  /\ dst = Nil

HubRegister(transformer) ==
  /\ design = "hub"
  /\ Len(history) < MaxRegister
  /\ transformers' = Register(transformers, transformer)
  /\ history' = Append(history, transformer)
  /\ op' = [name |-> "Register", transformer |-> transformer]
  /\ res' = NoResult
  /\ dst' = Nil
  /\ UNCHANGED design

HubTransform(sourceProvider, targetProvider, request) ==
  /\ design = "hub"
  /\ op' = [name |-> "Transform", source |-> sourceProvider, target |-> targetProvider,
            request |-> request]
  /\ res' = Transform(transformers, sourceProvider, targetProvider, request)
  /\ dst' = Nil
  /\ UNCHANGED <<design, transformers, history>>

HubTransformResponse(sourceProvider, targetProvider, response) ==
  /\ design = "hub"
  /\ op' = [name |-> "TransformResponse", source |-> sourceProvider, target |-> targetProvider,
            response |-> response]
  /\ res' = TransformResponse(transformers, sourceProvider, targetProvider, response)
  /\ dst' = Nil
  /\ UNCHANGED <<design, transformers, history>>

HubGetAvailableTransformations ==
  /\ design = "hub"
  /\ \E providers \in Orders(DOMAIN transformers) :
       res' = [NoResult EXCEPT !.val = GetAvailableTransformations(providers)]
  /\ op' = [name |-> "GetAvailableTransformations"]
  /\ dst' = Nil
  /\ UNCHANGED <<design, transformers, history>>

HubGetSupportedProviders ==
  /\ design = "hub"
  /\ \E providers \in Orders(DOMAIN transformers) :
       res' = [NoResult EXCEPT !.val = GetSupportedProviders(providers)]
  /\ op' = [name |-> "GetSupportedProviders"]
  /\ dst' = Nil
  /\ UNCHANGED <<design, transformers, history>>

DirectRegister(sourceProvider, targetProvider, transformer) ==
  /\ design = "direct"
  /\ Len(history) < MaxRegister
  /\ transformers' = Direct_Register(transformers, sourceProvider, targetProvider, transformer)
  /\ history' = Append(history, [source |-> sourceProvider, target |-> targetProvider,
                                 transformer |-> transformer])
  /\ op' = [name |-> "Register", source |-> sourceProvider, target |-> targetProvider,
            transformer |-> transformer]
  /\ res' = NoResult
  /\ dst' = Nil
  /\ UNCHANGED design

DirectGetTransformer(sourceProvider, targetProvider) ==
  /\ design = "direct"
  /\ op' = [name |-> "GetTransformer", source |-> sourceProvider, target |-> targetProvider]
  /\ res' = [NoResult EXCEPT
               !.val = Direct_GetTransformer(transformers, sourceProvider, targetProvider)]
  /\ dst' = Nil
  /\ UNCHANGED <<design, transformers, history>>

DirectTransform(sourceProvider, targetProvider, call) ==
  /\ design = "direct"
  /\ op' = [name |-> "Transform", source |-> sourceProvider, target |-> targetProvider,
            typ |-> call.typ, src |-> call.src, dst |-> call.dst]
  /\ res' = Direct_Transform(transformers, sourceProvider, targetProvider,
                             call.typ, call.src, call.dst).result
  /\ dst' = Direct_Transform(transformers, sourceProvider, targetProvider,
                             call.typ, call.src, call.dst).dst
  /\ UNCHANGED <<design, transformers, history>>

DirectGetAvailableTransformations ==
  /\ design = "direct"
  /\ \E keys \in Orders(DOMAIN transformers) :
       res' = [NoResult EXCEPT !.val = Direct_GetAvailableTransformations(keys)]
  /\ op' = [name |-> "GetAvailableTransformations"]
  /\ dst' = Nil
  /\ UNCHANGED <<design, transformers, history>>

DirectGetSupportedProviders ==
  /\ design = "direct"
  /\ \E providers \in Orders(Direct_ProviderMap(transformers)) :
       res' = [NoResult EXCEPT !.val = Direct_GetSupportedProviders(providers)]
  /\ op' = [name |-> "GetSupportedProviders"]
  /\ dst' = Nil
  /\ UNCHANGED <<design, transformers, history>>

\* registration and introspection
NextRegister ==
  \/ \E transformer \in HubTransformers : HubRegister(transformer)
  \/ HubGetAvailableTransformations
  \/ HubGetSupportedProviders
  \/ \E pair \in DirectPairs, transformer \in DirectTransformers :
       DirectRegister(pair[1], pair[2], transformer)
  \/ \E s \in Providers, t \in Providers : DirectGetTransformer(s, t)
  \/ DirectGetAvailableTransformations
  \/ DirectGetSupportedProviders

SpecRegister == InitRegistry /\ [][NextRegister]_vars

\* registration and transformation
NextTransform ==
  \/ \E transformer \in HubTransformers : HubRegister(transformer)
  \/ \E s \in Providers, t \in Providers, request \in RegistryRequests :
       HubTransform(s, t, request)
  \/ \E s \in Providers, t \in Providers, response \in RegistryResponses :
       HubTransformResponse(s, t, response)
  \/ \E pair \in DirectPairs, transformer \in DirectTransformers :
       DirectRegister(pair[1], pair[2], transformer)
  \/ \E s \in Providers, t \in Providers, call \in DirectCalls : DirectTransform(s, t, call)

SpecTransform == InitRegistry /\ [][NextTransform]_vars

-----------------------------------------------------------------------------
(* Properties of the registries *)

\* what the Register calls so far registered: the key and the transformer of a call
KeyOf(entry) ==
  IF design = "hub" THEN GetProvider(entry) ELSE Direct_Key(entry.source, entry.target)

ValueOf(entry) == IF design = "hub" THEN entry ELSE entry.transformer

RegisteredKeys == {KeyOf(history[i]) : i \in 1..Len(history)}

LastIndex(key) ==
  CHOOSE i \in 1..Len(history) :
    KeyOf(history[i]) = key /\ \A j \in (i + 1)..Len(history) : KeyOf(history[j]) # key

\* the table after the Register calls of h, made in order on a new registry
RECURSIVE Replay(_)
Replay(h) ==
  IF h = <<>> THEN NewTransformationRegistry
  ELSE LET r == Replay(SubSeq(h, 1, Len(h) - 1))
           entry == h[Len(h)]
       IN  IF design = "hub" THEN Register(r, entry)
           ELSE Direct_Register(r, entry.source, entry.target, entry.transformer)

Swap(h, i) == [h EXCEPT ![i] = h[i + 1], ![i + 1] = h[i]]

NoDuplicates(seq) == \A i, j \in 1..Len(seq) : i # j => seq[i] # seq[j]

\* C1: Transform and TransformResponse called with a source or a target provider
\* that no earlier Register call registered (for the pair-keyed registry: with a
\* pair that no Register call registered) return a transformer_not_found error
\* and no payload, invoke no method of any transformer and leave dst as it was.
C1_NotFoundWithoutConversion ==
  /\ (/\ design = "hub"
      /\ op.name \in {"Transform", "TransformResponse"}
      /\ (op.source \notin RegisteredKeys \/ op.target \notin RegisteredKeys))
       => (/\ res.type = "transformer_not_found"
           /\ res.err # NoErr
           /\ res.val = Nil
           /\ res.calls = <<>>)
  /\ (/\ design = "direct"
      /\ op.name = "Transform"
      /\ Direct_Key(op.source, op.target) \notin RegisteredKeys)
       => (/\ res.type = "transformer_not_found"
           /\ res.err # NoErr
           /\ res.calls = <<>>
           /\ dst = op.dst)

C1_Witness ==
  /\ design = "hub"
  /\ op.name = "Transform"
  /\ Len(history) >= 2
  /\ op.source \in RegisteredKeys
  /\ op.target \notin RegisteredKeys
  /\ res.type = "transformer_not_found"

\* C2: after any sequence of Register calls the table holds exactly one transformer
\* per registered key, the one of the most recent Register for that key; swapping
\* two successive Register calls of different keys gives the same table; the number
\* of keys is the number of distinct keys registered, so that registering a key
\* again changes neither it nor the number of pairs.
C2_LastWriteWins ==
  /\ DOMAIN transformers = RegisteredKeys
  /\ \A key \in RegisteredKeys : transformers[key] = ValueOf(history[LastIndex(key)])
  /\ \A i \in 1..(Len(history) - 1) :
       KeyOf(history[i]) # KeyOf(history[i + 1]) => Replay(Swap(history, i)) = transformers
  /\ Replay(history) = transformers
  /\ \A keys \in Orders(DOMAIN transformers) :
       IF design = "hub"
         THEN Len(GetAvailableTransformations(keys))
                = Cardinality(RegisteredKeys) * (Cardinality(RegisteredKeys) - 1)
         ELSE Len(Direct_GetAvailableTransformations(keys)) = Cardinality(RegisteredKeys)

C2_Witness ==
  /\ design = "hub"
  /\ Len(history) = 3
  /\ GetProvider(history[1]) = GetProvider(history[3])
  /\ history[1] # history[3]
  /\ GetProvider(history[2]) # GetProvider(history[1])
  /\ transformers[GetProvider(history[1])] = history[3]

\* what the pair list of C3 must be over a set of providers
AllPairsOf(pairs, providers) ==
  /\ Len(pairs) = Cardinality(providers) * (Cardinality(providers) - 1)
  /\ NoDuplicates(pairs)
  /\ \A i \in 1..Len(pairs) :
       /\ pairs[i].Source # pairs[i].Target
       /\ pairs[i].Source \in providers
       /\ pairs[i].Target \in providers
       /\ \E j \in 1..Len(pairs) :
            pairs[j] = [Source |-> pairs[i].Target, Target |-> pairs[i].Source]
  /\ \A s \in providers, t \in providers :
       s # t => \E i \in 1..Len(pairs) : pairs[i] = [Source |-> s, Target |-> t]

\* C3 (as the code has it): GetAvailableTransformations of the provider-keyed registry
\* returns, for the N providers registered, exactly the N*(N-1) ordered pairs of
\* distinct registered providers, each once, symmetric and without self-pair;
\* GetAvailableTransformations of the pair-keyed registry returns exactly the
\* registered (source, target) keys, each once.
C3_PairsOfRegisteredProviders ==
  op.name = "GetAvailableTransformations" =>
    IF design = "hub"
      THEN AllPairsOf(res.val, RegisteredKeys)
      ELSE /\ NoDuplicates(res.val)
           /\ {Direct_Key(res.val[i].Source, res.val[i].Target) : i \in 1..Len(res.val)}
                = RegisteredKeys

C3_Witness ==
  /\ design = "hub"
  /\ op.name = "GetAvailableTransformations"
  /\ Cardinality(RegisteredKeys) = 3
  /\ Len(res.val) = 6

\* C3 (as stated): every GetAvailableTransformations returns exactly the N*(N-1)
\* ordered pairs of the N distinct providers that have a transformer.
C3_AsStated ==
  op.name = "GetAvailableTransformations" =>
    AllPairsOf(res.val, IF design = "hub" THEN DOMAIN transformers
                        ELSE Direct_ProviderMap(transformers))

\* C4 (as stated): a call that returns an error returns no payload and leaves the
\* object behind dst exactly as it was before the call.
C4_NoPartialOutput ==
  /\ (design = "hub" /\ op.name \in {"Transform", "TransformResponse"} /\ res.err # NoErr)
       => res.val = Nil
  /\ (design = "direct" /\ op.name = "Transform" /\ res.err # NoErr) => dst = op.dst

-----------------------------------------------------------------------------
(* The request conversions on plain-text requests.  The caller holds a     *)
(* request or a unified request (op.input) and a registry with the three   *)
(* adapters, calls one adapter method or the registry's Transform on it    *)
(* and may feed what that returned to a further call.  op is the last call *)
(* with its arguments; op.prev, when the argument is what an earlier call  *)
(* returned, is that call and its result.                                  *)

MaxMsgs == 2

MaxTokensValue == 1

Roles == {"system", "user", "assistant"}

GeminiRoles == {"user", "model"}

Texts == {"a", "b"}

Prompts == {"", "p"}

SeqsUpTo(S, n) == UNION {[1..k -> S] : k \in 0..n}

PlainMessages(roles) == SeqsUpTo([role : roles, text : Texts], MaxMsgs)

OpenAIRequests ==
  {OpenAI_Request("m", maxTokens, Map(LAMBDA m : OpenAI_TextMessage(m.role, m.text), messages)) :
     maxTokens \in 0..MaxTokensValue, messages \in PlainMessages(Roles)}

GeminiRequests ==
  {Gemini_Request(maxTokens, Map(LAMBDA m : Gemini_TextContent(m.role, m.text), messages)) :
     maxTokens \in 0..MaxTokensValue, messages \in PlainMessages(GeminiRoles)}

ClaudeRequests ==
  {Claude_Request("m", maxTokens, prompt,
                  Map(LAMBDA m : Claude_TextMessage(m.role, m.text), messages)) :
     maxTokens \in 0..MaxTokensValue, prompt \in Prompts, messages \in PlainMessages(Roles)}

Requests == OpenAIRequests \cup GeminiRequests \cup ClaudeRequests

Unified_TextMessage(role, text) ==
  [Role |-> role, Name |-> "", Content |-> text, Parts |-> <<>>, ToolCalls |-> <<>>,
   ToolCallID |-> ""]

Unified_Request(model, maxTokens, messages) ==
  [Model |-> model, MaxTokens |-> maxTokens, Stream |-> FALSE, StopSequences |-> <<>>,
   Temperature |-> Nil, TopP |-> Nil, SystemPrompt |-> "", Messages |-> messages,
   Tools |-> <<>>]

UnifiedRequests ==
  {Unified_Request("m", maxTokens,
                   Map(LAMBDA m : Unified_TextMessage(m.role, m.text), messages)) :
     maxTokens \in 0..MaxTokensValue, messages \in PlainMessages(Roles)}

IsRequest(v) == "kind" \in DOMAIN v

HasPrev(call) == "prev" \in DOMAIN call

AllRegistered ==
  <<[provider |-> ProviderOpenAI, id |-> "t1"], [provider |-> ProviderGemini, id |-> "t1"],
    [provider |-> ProviderClaude, id |-> "t1"]>>

InitRequest ==
  /\ design = "hub"
  /\ history = AllRegistered
  /\ transformers = Register(Register(Register(NewTransformationRegistry, AllRegistered[1]),
                                      AllRegistered[2]), AllRegistered[3])
  /\ \E input \in Requests \cup UnifiedRequests : op = [name |-> "caller", input |-> input]
  /\ res = NoResult
  /\ dst = Nil

CallValidateRequest(provider) ==
  /\ op.name = "caller"
  /\ IsRequest(op.input)
  /\ op' = [name |-> "ValidateRequest", provider |-> provider, request |-> op.input]
  /\ res' = [NoResult EXCEPT !.err = ValidateRequest(provider, op.input)]
  /\ UNCHANGED <<design, transformers, history, dst>>

CallToUnified(provider) ==
  /\ op.name = "caller"
  /\ IsRequest(op.input)
  /\ op' = [name |-> "ToUnified", provider |-> provider, request |-> op.input]
  /\ res' = [NoResult EXCEPT !.val = ToUnified(provider, op.input).val,
                             !.err = ToUnified(provider, op.input).err]
  /\ UNCHANGED <<design, transformers, history, dst>>

CallFromUnified(provider) ==
  /\ op.name = "caller"
  /\ ~IsRequest(op.input)
  /\ op' = [name |-> "FromUnified", provider |-> provider, unified |-> op.input]
  /\ res' = [NoResult EXCEPT !.val = FromUnified(provider, op.input).val,
                             !.err = FromUnified(provider, op.input).err]
  /\ UNCHANGED <<design, transformers, history, dst>>

\* the request an adapter's FromUnified returned, given to its ToUnified
CallToUnifiedOfResult ==
  /\ op.name = "FromUnified"
  /\ ~HasPrev(op)
  /\ res.err = NoErr
  /\ op' = [name |-> "ToUnified", provider |-> op.provider, request |-> res.val[1],
            prev |-> [op |-> op, res |-> res]]
  /\ res' = [NoResult EXCEPT !.val = ToUnified(op.provider, res.val[1]).val,
                             !.err = ToUnified(op.provider, res.val[1]).err]
  /\ UNCHANGED <<design, transformers, history, dst>>

\* the unified request a ToUnified returned, given to an adapter's FromUnified
CallFromUnifiedOfResult(provider) ==
  /\ op.name = "ToUnified"
  /\ res.err = NoErr
  /\ op' = [name |-> "FromUnified", provider |-> provider, unified |-> res.val[1],
            prev |-> [op |-> op, res |-> res]]
  /\ res' = [NoResult EXCEPT !.val = FromUnified(provider, res.val[1]).val,
                             !.err = FromUnified(provider, res.val[1]).err]
  /\ UNCHANGED <<design, transformers, history, dst>>

CallTransform(sourceProvider, targetProvider) ==
  /\ op.name = "caller"
  /\ IsRequest(op.input)
  /\ op' = [name |-> "Transform", source |-> sourceProvider, target |-> targetProvider,
            request |-> op.input]
  /\ res' = Transform(transformers, sourceProvider, targetProvider, op.input)
  /\ UNCHANGED <<design, transformers, history, dst>>

\* the request a Transform returned, transformed back to the source provider
CallTransformBack ==
  /\ op.name = "Transform"
  /\ ~HasPrev(op)
  /\ res.err = NoErr
  /\ op' = [name |-> "Transform", source |-> op.target, target |-> op.source,
            request |-> res.val[1], prev |-> [op |-> op, res |-> res]]
  /\ res' = Transform(transformers, op.target, op.source, res.val[1])
  /\ UNCHANGED <<design, transformers, history, dst>>

NextRequest ==
  \/ \E provider \in Providers : CallValidateRequest(provider)
  \/ \E provider \in Providers : CallToUnified(provider)
  \/ \E provider \in Providers : CallFromUnified(provider)
  \/ CallToUnifiedOfResult
  \/ \E provider \in Providers : CallFromUnifiedOfResult(provider)
  \/ \E s \in Providers, t \in Providers : CallTransform(s, t)
  \/ CallTransformBack

SpecRequest == InitRequest /\ [][NextRequest]_vars

-----------------------------------------------------------------------------
(* Properties of the request conversions.                                  *)

KindOf(provider) ==
  CASE provider = ProviderOpenAI -> "openai.ChatCompletionRequest"
    [] provider = ProviderGemini -> "gemini.GeminiChatRequest"
    [] provider = ProviderClaude -> "claude.ClaudeRequest"

MessagesOf(req) ==
  IF req.kind = "gemini.GeminiChatRequest" THEN req.Contents ELSE req.Messages

MaxTokensOf(req) ==
  IF req.kind = "gemini.GeminiChatRequest" THEN req.GenerationConfig.MaxOutputTokens
  ELSE req.MaxTokens

TextOf(req, m) ==
  CASE req.kind = "openai.ChatCompletionRequest" -> m.Content
    [] req.kind = "gemini.GeminiChatRequest" -> Gemini_extractTextFromParts(m.Parts)
    [] req.kind = "claude.ClaudeRequest" ->
         IF m.Content.t = "string" THEN m.Content.s
         ELSE Claude_extractTextFromMediaMessages(m.Content.parts)

TextsOf(req) == Map(LAMBDA m : TextOf(req, m), MessagesOf(req))

RolesOf(req) == Map(LAMBDA m : m.Role, MessagesOf(req))

UnifiedTexts(unified) == Map(LAMBDA m : m.Content, unified.Messages)

LegacyPrompt(req) ==
  IF req.kind = "claude.ClaudeRequest" /\ req.Prompt # "" THEN <<req.Prompt>> ELSE <<>>

\* a provider's own request with a positive max-token value, at least one
\* message and no legacy prompt
PlainRequest(provider, req) ==
  /\ req.kind = KindOf(provider)
  /\ MaxTokensOf(req) > 0
  /\ Len(MessagesOf(req)) > 0
  /\ LegacyPrompt(req) = <<>>

RoundTripRole(role, source, target) ==
  IF role = "system" /\ ProviderGemini \in {source, target} THEN "user" ELSE role

\* C6 (as stated): transforming a plain request from A to another provider
\* B and the result back from B to A succeeds and gives a request with the same texts and
\* the same roles in the same order.
C6_RoundTripPreservesRoles ==
  /\ (op.name = "Transform" /\ ~HasPrev(op) /\ op.source # op.target
        /\ PlainRequest(op.source, op.request))
       => res.err = NoErr
  /\ (op.name = "Transform" /\ HasPrev(op) /\ op.source # op.target
        /\ PlainRequest(op.target, op.prev.op.request))
       => /\ res.err = NoErr
          /\ res.val[1].kind = op.prev.op.request.kind
          /\ TextsOf(res.val[1]) = TextsOf(op.prev.op.request)
          /\ RolesOf(res.val[1]) = RolesOf(op.prev.op.request)

\* C6 (amended): the round trip succeeds and gives a request with the same
\* number of messages, the same texts in the same order and the same roles,
\* except that a system message comes back as a user message when A or B is
\* Gemini.
C6_RoundTripPreservesConversation ==
  /\ (op.name = "Transform" /\ ~HasPrev(op) /\ op.source # op.target
        /\ PlainRequest(op.source, op.request))
       => res.err = NoErr
  /\ (op.name = "Transform" /\ HasPrev(op) /\ op.source # op.target
        /\ PlainRequest(op.target, op.prev.op.request))
       => /\ res.err = NoErr
          /\ res.val[1].kind = op.prev.op.request.kind
          /\ TextsOf(res.val[1]) = TextsOf(op.prev.op.request)
          /\ RolesOf(res.val[1]) =
               Map(LAMBDA role : RoundTripRole(role, op.source, op.target),
                   RolesOf(op.prev.op.request))

\* an OpenAI request with a system and an assistant message has gone to
\* Gemini and back
C6_Witness ==
  /\ op.name = "Transform"
  /\ HasPrev(op)
  /\ op.source = ProviderGemini
  /\ op.target = ProviderOpenAI
  /\ PlainRequest(ProviderOpenAI, op.prev.op.request)
  /\ RolesOf(op.prev.op.request) = <<"system", "assistant">>
  /\ res.err = NoErr
  /\ RolesOf(res.val[1]) = <<"user", "assistant">>
  /\ TextsOf(res.val[1]) = TextsOf(op.prev.op.request)

\* a unified request with a model, a positive max-token value and messages
ValidUnified(unified) == unified.Model # "" /\ unified.MaxTokens > 0 /\ Len(unified.Messages) > 0

\* C7: for every adapter and valid unified request ir, ToUnified of
\* FromUnified(ir) succeeds and FromUnified of that equals FromUnified(ir).
C7_ReconversionIdempotent ==
  /\ (op.name = "ToUnified" /\ HasPrev(op) /\ ValidUnified(op.prev.op.unified))
       => res.err = NoErr
  /\ (op.name = "FromUnified" /\ HasPrev(op) /\ HasPrev(op.prev.op)
        /\ op.provider = op.prev.op.provider
        /\ ValidUnified(op.prev.op.prev.op.unified))
       => /\ res.err = NoErr
          /\ res.val = op.prev.op.prev.res.val

\* C8 (as stated): ToUnified gives exactly one unified message per message
\* of the request, in the same order with the same text, and FromUnified
\* one provider message per unified message.
C8_OneMessagePerSourceMessage ==
  /\ (op.name = "ToUnified" /\ ~HasPrev(op) /\ res.err = NoErr)
       => UnifiedTexts(res.val[1]) = TextsOf(op.request)
  /\ (op.name = "FromUnified" /\ res.err = NoErr)
       => TextsOf(res.val[1]) = UnifiedTexts(op.unified)

\* C8 (amended): ToUnified gives one unified message per message of the
\* request, in order, preceded for a Claude request with a legacy prompt by
\* one user message holding the prompt; FromUnified gives one provider
\* message per unified message, in order.
C8_OneMessagePerSourceMessageAfterPrompt ==
  /\ (op.name = "ToUnified" /\ ~HasPrev(op) /\ res.err = NoErr)
       => /\ UnifiedTexts(res.val[1]) = LegacyPrompt(op.request) \o TextsOf(op.request)
          /\ LegacyPrompt(op.request) # <<>> => res.val[1].Messages[1].Role = "user"
  /\ (op.name = "FromUnified" /\ res.err = NoErr)
       => TextsOf(res.val[1]) = UnifiedTexts(op.unified)

\* ToUnified of the Claude adapter has converted a request with a legacy
\* prompt and two messages into three unified messages
C8_Witness ==
  /\ op.name = "ToUnified"
  /\ ~HasPrev(op)
  /\ op.provider = ProviderClaude
  /\ res.err = NoErr
  /\ op.request.Prompt = "p"
  /\ TextsOf(op.request) = <<"a", "b">>
  /\ UnifiedTexts(res.val[1]) = <<"p", "a", "b">>

-----------------------------------------------------------------------------
(* The response conversions.  The caller holds a provider response         *)
(* (op.input) and a registry with the three adapters, calls an adapter's   *)
(* ResponseToUnified or the registry's TransformResponse on it and may     *)
(* give the unified response to an adapter's ResponseFromUnified.          *)

MaxTokenCount == 2

OpenAIFinishReasons == {"stop", "length", "tool_calls", "content_filter", "function_call", ""}

GeminiFinishReasons == {"STOP", "MAX_TOKENS", "SAFETY", "RECITATION", "OTHER"}

ClaudeStopReasons == {"end_turn", "max_tokens", "stop_sequence", "tool_use", "refusal", ""}

TokenCounts == 0..MaxTokenCount

OpenAIResponses ==
  {OpenAI_TextResponse(finishReason, "a", OpenAI_Usage(prompt, completion, total)) :
     finishReason \in OpenAIFinishReasons,
     prompt \in TokenCounts, completion \in TokenCounts, total \in TokenCounts}

GeminiResponses ==
  {Gemini_TextResponse(finishReason, "a", Gemini_UsageMetadata(prompt, candidates, total)) :
     finishReason \in {Nil} \cup {Some(reason) : reason \in GeminiFinishReasons},
     prompt \in TokenCounts, candidates \in TokenCounts, total \in TokenCounts}

ClaudeResponses ==
  {Claude_TextResponse(stopReason, "a", usage) :
     stopReason \in ClaudeStopReasons,
     usage \in {Nil} \cup {Some([Claude_Usage(input, output) EXCEPT
                                    !.CacheReadInputTokens = cacheRead,
                                    !.CacheCreationInputTokens = cacheCreation]) :
                             input \in TokenCounts, output \in TokenCounts,
                             cacheRead \in TokenCounts, cacheCreation \in TokenCounts}}
  \cup {[Claude_NoResponse EXCEPT
            !.Id = "id", !.Type = "error", !.Model = "m",
            !.Error = Some([Type |-> type, Message |-> "x"])] :
          type \in {"overloaded_error", "invalid_request_error"}}

Responses == OpenAIResponses \cup GeminiResponses \cup ClaudeResponses

InitResponse ==
  /\ design = "hub"
  /\ history = AllRegistered
  /\ transformers = Register(Register(Register(NewTransformationRegistry, AllRegistered[1]),
                                      AllRegistered[2]), AllRegistered[3])
  /\ \E input \in Responses : op = [name |-> "caller", input |-> input]
  /\ res = NoResult
  /\ dst = Nil

CallResponseToUnified(provider) ==
  /\ op.name = "caller"
  /\ op' = [name |-> "ResponseToUnified", provider |-> provider, response |-> op.input]
  /\ res' = [NoResult EXCEPT !.val = ResponseToUnified(provider, op.input).val,
                             !.err = ResponseToUnified(provider, op.input).err]
  /\ UNCHANGED <<design, transformers, history, dst>>

\* the unified response a ResponseToUnified returned, given to an adapter's
\* ResponseFromUnified
CallResponseFromUnifiedOfResult(provider) ==
  /\ op.name = "ResponseToUnified"
  /\ ~HasPrev(op)
  /\ res.err = NoErr
  /\ op' = [name |-> "ResponseFromUnified", provider |-> provider, unified |-> res.val[1],
            prev |-> [op |-> op, res |-> res]]
  /\ res' = [NoResult EXCEPT !.val = ResponseFromUnified(provider, res.val[1]).val,
                             !.err = ResponseFromUnified(provider, res.val[1]).err]
  /\ UNCHANGED <<design, transformers, history, dst>>

CallTransformResponse(sourceProvider, targetProvider) ==
  /\ op.name = "caller"
  /\ op' = [name |-> "TransformResponse", source |-> sourceProvider,
            target |-> targetProvider, response |-> op.input]
  /\ res' = TransformResponse(transformers, sourceProvider, targetProvider, op.input)
  /\ UNCHANGED <<design, transformers, history, dst>>

\* the response an adapter's ResponseFromUnified returned, given to its
\* ResponseToUnified
CallResponseToUnifiedOfResult ==
  /\ op.name = "ResponseFromUnified"
  /\ res.err = NoErr
  /\ op' = [name |-> "ResponseToUnified", provider |-> op.provider, response |-> res.val[1],
            prev |-> [op |-> op, res |-> res]]
  /\ res' = [NoResult EXCEPT !.val = ResponseToUnified(op.provider, res.val[1]).val,
                             !.err = ResponseToUnified(op.provider, res.val[1]).err]
  /\ UNCHANGED <<design, transformers, history, dst>>

NextResponse ==
  \/ \E provider \in Providers : CallResponseToUnified(provider)
  \/ \E provider \in Providers : CallResponseFromUnifiedOfResult(provider)
  \/ CallResponseToUnifiedOfResult
  \/ \E s \in Providers, t \in Providers : CallTransformResponse(s, t)

SpecResponse == InitResponse /\ [][NextResponse]_vars

-----------------------------------------------------------------------------
(* Properties of the response conversions.                                 *)

CanonicalFinishReasons == {"stop", "length", "tool_calls", "content_filter"}

\* the finish/stop reason strings each adapter's ResponseToUnified maps
RecognisedReasons(provider) ==
  CASE provider = ProviderOpenAI -> {"stop", "length", "tool_calls", "content_filter"}
    [] provider = ProviderGemini -> {"STOP", "MAX_TOKENS", "SAFETY", "RECITATION"}
    [] provider = ProviderClaude -> {}

\* the reason of choice i of a provider response, a pointer for Gemini
ReasonOf(response, i) ==
  CASE response.kind = "openai.ChatCompletionResponse" -> Some(response.Choices[i].FinishReason)
    [] response.kind = "gemini.GeminiChatResponse" -> response.Candidates[i].FinishReason
    [] response.kind = "claude.ClaudeResponse" -> Some(response.StopReason)

\* C9: every choice ResponseToUnified produces from a response that
\* reports a finish/stop reason has a FinishReason among stop, length,
\* tool_calls and content_filter, and a reason the adapter does not
\* recognise gives content_filter.
C9_FinishReasonCanonical ==
  (op.name = "ResponseToUnified" /\ res.err = NoErr)
    => \A i \in 1..Len(res.val[1].Choices) :
         (ReasonOf(op.response, i) \notin {Nil, Some("")}) =>
         /\ res.val[1].Choices[i].FinishReason \in CanonicalFinishReasons
         /\ (\A reason \in RecognisedReasons(op.provider) : ReasonOf(op.response, i) # Some(reason))
              => res.val[1].Choices[i].FinishReason = "content_filter"

\* C10: every usage ResponseToUnified produces has
\* TotalTokens = PromptTokens + CompletionTokens.
C10_TotalIsPromptPlusCompletion ==
  (op.name = "ResponseToUnified" /\ res.err = NoErr /\ res.val[1].Usage # Nil)
    => res.val[1].Usage[1].TotalTokens =
         res.val[1].Usage[1].PromptTokens + res.val[1].Usage[1].CompletionTokens

\* C11: every usage ResponseToUnified produces has
\* CacheReadTokens + CacheWriteTokens <= PromptTokens + CompletionTokens.
C11_CacheWithinPrimaryCounts ==
  (op.name = "ResponseToUnified" /\ res.err = NoErr /\ res.val[1].Usage # Nil)
    => res.val[1].Usage[1].CacheReadTokens + res.val[1].Usage[1].CacheWriteTokens
         <= res.val[1].Usage[1].PromptTokens + res.val[1].Usage[1].CompletionTokens

-----------------------------------------------------------------------------
(* The request conversions on requests with rich parts, tool calls, tool   *)
(* results and tools.  The caller and the adapter calls are those of the   *)
(* plain requests; the caller may also hand a provider request to the Do   *)
(* of a direct transformer.                                                *)

MaxParts == 2

MaxTools == 2

ArgKeys == {"q", "n"}

ArgValues == {[type |-> "string", s |-> "x", n |-> 0], [type |-> "number", s |-> "", n |-> 1]}

\* map[string]interface{} values: the nil map and the maps over some of the keys
ArgMaps == {Nil} \cup {Some(m) : m \in UNION {[K -> ArgValues] : K \in SUBSET ArgKeys}}

Unified_NoPart ==
  [Type |-> "", Text |-> "", ImageURL |-> Nil, MediaType |-> "", Data |-> "", Metadata |-> Nil]

UnifiedParts ==
  {[Unified_NoPart EXCEPT !.Type = "text", !.Text = "t"],
   [Unified_NoPart EXCEPT !.Type = "image_url", !.ImageURL = Some([URL |-> "u", Detail |-> ""])],
   [Unified_NoPart EXCEPT !.Type = "image", !.ImageURL = Some([URL |-> "u", Detail |-> ""])],
   [Unified_NoPart EXCEPT !.Type = "image", !.MediaType = "image/png", !.Data = "AAAA"],
   [Unified_NoPart EXCEPT !.Type = "file", !.MediaType = "application/pdf", !.Data = "uri"]}

Unified_ToolCall(arguments) ==
  [ID |-> "id1", Type |-> "function", Name |-> "f", Arguments |-> arguments]

ToolNames == {"f", "google_search", "web_search", "search", "code_execution"}

ToolTypes == {"function", "google_search"}

UnifiedTools ==
  {[Type |-> type, Name |-> name, Description |-> "d", Parameters |-> Nil] :
     type \in ToolTypes, name \in ToolNames}

RichUnifiedRequests ==
  {Unified_Request("m", 1, <<[Unified_TextMessage("user", content) EXCEPT !.Parts = parts]>>) :
     content \in {"", "a"}, parts \in SeqsUpTo(UnifiedParts, MaxParts)}
  \cup {Unified_Request("m", 1, <<[Unified_TextMessage("assistant", content) EXCEPT
                                     !.ToolCalls = <<Unified_ToolCall(arguments)>>]>>) :
          content \in {"", "a"}, arguments \in ArgMaps}
  \cup {Unified_Request("m", 1, <<[Unified_TextMessage("tool", "r") EXCEPT !.ToolCallID = "id1"]>>)}
  \cup {[Unified_Request("m", 1, <<Unified_TextMessage("user", "a")>>) EXCEPT !.Tools = tools] :
          tools \in SeqsUpTo(UnifiedTools, MaxTools)}

OpenAIParts ==
  {[Type |-> "text", Text |-> "t", ImageURL |-> Nil],
   [Type |-> "text", Text |-> "u", ImageURL |-> Nil],
   [Type |-> "image_url", Text |-> "", ImageURL |-> Some([URL |-> "u", Detail |-> "auto"])]}

\* the texts a tool call's arguments string can hold
ArgTexts == {JSONEmpty, JSONOther} \cup {MarshalMap(arguments) : arguments \in ArgMaps}

OpenAI_ToolCall(arguments) ==
  [ID |-> "id1", Type |-> "function", Function |-> [Name |-> "f", Arguments |-> arguments]]

OpenAITools ==
  {[Type |-> type,
    Function |-> Some([Name |-> name, Description |-> "d", Parameters |-> Nil])] :
     type \in ToolTypes, name \in ToolNames}

RichOpenAIRequests ==
  {OpenAI_Request("m", 1, <<[OpenAI_TextMessage("user", content) EXCEPT
                               !.MultiContent = parts]>>) :
     content \in {"", "a"}, parts \in SeqsUpTo(OpenAIParts, MaxParts)}
  \cup {OpenAI_Request("m", 1, <<[OpenAI_TextMessage("assistant", "") EXCEPT
                                    !.ToolCalls = <<OpenAI_ToolCall(arguments)>>]>>) :
          arguments \in ArgTexts}
  \cup {OpenAI_Request("m", 1, <<[OpenAI_TextMessage("tool", "r") EXCEPT !.ToolCallID = "id1"]>>)}
  \cup {[OpenAI_Request("m", 1, <<OpenAI_TextMessage("user", "a")>>) EXCEPT !.Tools = tools] :
          tools \in SeqsUpTo(OpenAITools, MaxTools)}

GeminiParts ==
  {Gemini_TextPart("t"), Gemini_TextPart("u"),
   [Gemini_TextPart("") EXCEPT !.InlineData = Some([MimeType |-> "image/png", Data |-> "AAAA"])],
   [Gemini_TextPart("") EXCEPT
      !.FileData = Some([MimeType |-> "application/pdf", FileUri |-> "uri"])],
   [Gemini_TextPart("") EXCEPT
      !.FunctionCall = Some([FunctionName |-> "f",
                             Arguments |-> Some([k \in {"q"} |-> [type |-> "string",
                                                                 s |-> "x", n |-> 0]])])],
   [Gemini_TextPart("") EXCEPT
      !.FunctionResponse = Some([Name |-> "f", Response |-> Nil])]}

RichGeminiRequests ==
  {Gemini_Request(1, <<[Role |-> role, Parts |-> parts]>>) :
     role \in {"user", "model", "function"}, parts \in SeqsUpTo(GeminiParts, MaxParts)}

ClaudeParts ==
  {[Claude_NoPart EXCEPT !.Type = "text", !.Text = Some("t")],
   [Claude_NoPart EXCEPT !.Type = "text", !.Text = Some("u")],
   [Claude_NoPart EXCEPT !.Type = "image",
                         !.Source = Some([Type |-> "base64", MediaType |-> "image/png",
                                          Data |-> "AAAA", Url |-> ""])],
   [Claude_NoPart EXCEPT !.Type = "image",
                         !.Source = Some([Type |-> "url", MediaType |-> "", Data |-> "",
                                          Url |-> "u"])],
   [Claude_NoPart EXCEPT !.Type = "tool_use", !.Id = "id1", !.Name = "f",
                         !.Input = Some([k \in {"q"} |-> [type |-> "string",
                                                         s |-> "x", n |-> 0]])],
   [Claude_NoPart EXCEPT !.Type = "tool_result", !.ToolUseId = "id1",
                         !.Content = AnyString("r")]}

RichClaudeRequests ==
  {Claude_Request("m", 1, "", <<[Role |-> role, Content |-> AnyParts(parts)]>>) :
     role \in {"user", "assistant"}, parts \in SeqsUpTo(ClaudeParts, MaxParts)}

RichRequests == RichOpenAIRequests \cup RichGeminiRequests \cup RichClaudeRequests

\* the zero value a caller passes as dst for a request of the other shape
Direct_ZeroTarget(transformer) ==
  IF transformer = "OpenAITransformer" THEN Gemini_NoRequest ELSE OpenAI_NoRequest

InitRich ==
  /\ design = "hub"
  /\ history = AllRegistered
  /\ transformers = Register(Register(Register(NewTransformationRegistry, AllRegistered[1]),
                                      AllRegistered[2]), AllRegistered[3])
  /\ \E input \in RichRequests \cup RichUnifiedRequests :
       op = [name |-> "caller", input |-> input]
  /\ res = NoResult
  /\ dst = Nil

CallDo(transformer) ==
  /\ op.name = "caller"
  /\ IsRequest(op.input)
  /\ op' = [name |-> "Do", transformer |-> transformer, typ |-> TransformerTypeRequest,
            src |-> op.input, dst |-> Direct_ZeroTarget(transformer)]
  /\ res' = [NoResult EXCEPT
               !.err = Do(transformer, TransformerTypeRequest, op.input,
                          Direct_ZeroTarget(transformer)).err,
               !.panic = Do(transformer, TransformerTypeRequest, op.input,
                            Direct_ZeroTarget(transformer)).panic]
  /\ dst' = Some(Do(transformer, TransformerTypeRequest, op.input,
                    Direct_ZeroTarget(transformer)).dst)
  /\ UNCHANGED <<design, transformers, history>>

NextRich ==
  \/ NextRequest
  \/ \E transformer \in DirectTransformers : CallDo(transformer)

SpecRich == InitRich /\ [][NextRich]_vars

-----------------------------------------------------------------------------
(* Properties of the request conversions on rich requests.                 *)

\* C12: in every message ToUnified produces, tool calls occur only on an
\* assistant message and a tool-call id only on a tool message.
C12_ToolFieldsMatchRole ==
  (op.name = "ToUnified" /\ res.err = NoErr)
    => \A i \in 1..Len(res.val[1].Messages) :
         /\ res.val[1].Messages[i].ToolCalls # <<>> => res.val[1].Messages[i].Role = "assistant"
         /\ res.val[1].Messages[i].ToolCallID # "" => res.val[1].Messages[i].Role = "tool"

\* the tool calls of a unified request in order, each as its name and arguments
ToolCallsOf(unified) ==
  Flatten(Map(LAMBDA msg : Map(LAMBDA toolCall : [Name |-> toolCall.Name,
                                                  Arguments |-> toolCall.Arguments],
                               msg.ToolCalls),
              unified.Messages))

\* the argument texts of the tool calls of an OpenAI request
ArgumentTextsOf(req) ==
  UNION {{req.Messages[i].ToolCalls[j].Function.Arguments :
            j \in 1..Len(req.Messages[i].ToolCalls)} : i \in 1..Len(req.Messages)}

SearchToolNames == {"google_search", "web_search", "search"}

\* the tool list holding exactly one GoogleSearch built-in
OnlyGoogleSearch == <<[Gemini_NoTool EXCEPT !.GoogleSearch = Some("{}")]>>

\* C14: a request whose only tool is named google_search, web_search or
\* search becomes a Gemini request whose tools are exactly one GoogleSearch
\* built-in, whether converted by the hub adapter's FromUnified or by the
\* direct OpenAI transformer.
C14_SearchToolBecomesGoogleSearch ==
  /\ (/\ op.name = "FromUnified" /\ op.provider = ProviderGemini /\ res.err = NoErr
      /\ Len(op.unified.Tools) = 1 /\ op.unified.Tools[1].Name \in SearchToolNames)
       => res.val[1].Tools = OnlyGoogleSearch
  /\ (/\ op.name = "Do" /\ op.transformer = "OpenAITransformer" /\ res.err = NoErr
      /\ op.src.kind = "openai.ChatCompletionRequest"
      /\ Len(op.src.Tools) = 1 /\ op.src.Tools[1].Function[1].Name \in SearchToolNames)
       => dst[1].Tools = OnlyGoogleSearch

\* the messages of a provider request
SourceMessages(req) ==
  IF req.kind = "gemini.GeminiChatRequest" THEN req.Contents ELSE req.Messages

\* the parts of a provider message, each as its class (text, media or tool)
\* and its text
SourceParts(req, msg) ==
  CASE req.kind = "openai.ChatCompletionRequest" ->
         Map(LAMBDA part : [class |-> IF part.Type = "text" THEN "text" ELSE "media",
                            text |-> part.Text],
             msg.MultiContent)
    [] req.kind = "gemini.GeminiChatRequest" ->
         Map(LAMBDA part : [class |-> IF part.Text # "" THEN "text"
                                      ELSE IF part.InlineData # Nil \/ part.FileData # Nil
                                        THEN "media"
                                      ELSE "tool",
                            text |-> part.Text],
             msg.Parts)
    [] req.kind = "claude.ClaudeRequest" /\ msg.Content.t = "parts" ->
         Map(LAMBDA part : [class |-> IF part.Type = "text" THEN "text"
                                      ELSE IF part.Type \in {"image", "document"} THEN "media"
                                      ELSE "tool",
                            text |-> IF part.Text # Nil THEN part.Text[1] ELSE ""],
             msg.Content.parts)
    [] OTHER -> <<>>

PartsOfClass(parts, class) == SelectSeq(parts, LAMBDA part : part.class = class)

\* a provider message given as parts, some of them text and some media, none a
\* tool call or tool result
CarriesTextAndMedia(req, msg) ==
  /\ PartsOfClass(SourceParts(req, msg), "text") # <<>>
  /\ PartsOfClass(SourceParts(req, msg), "media") # <<>>
  /\ PartsOfClass(SourceParts(req, msg), "tool") = <<>>
  /\ req.kind = "openai.ChatCompletionRequest" => msg.Content = ""

\* C15: ToUnified turns a message carrying text parts and media parts into a
\* unified message whose Content is the concatenation of the text parts in
\* order and whose Parts are exactly the media parts, none of type text.
C15_TextMergedMediaKept ==
  (op.name = "ToUnified" /\ ~HasPrev(op) /\ res.err = NoErr
     /\ Len(res.val[1].Messages) = Len(SourceMessages(op.request)))
    => \A i \in 1..Len(res.val[1].Messages) :
         CarriesTextAndMedia(op.request, SourceMessages(op.request)[i])
           => LET parts == SourceParts(op.request, SourceMessages(op.request)[i])
                  unifiedMsg == res.val[1].Messages[i]
              IN  /\ unifiedMsg.Content
                       = ConcatText(Map(LAMBDA part : part.text, PartsOfClass(parts, "text")))
                  /\ Len(unifiedMsg.Parts) = Len(PartsOfClass(parts, "media"))
                  /\ \A j \in 1..Len(unifiedMsg.Parts) : unifiedMsg.Parts[j].Type # "text"

\* the number of content parts of a provider message, a content string
\* counting as one text part
TargetPartCount(req, msg) ==
  CASE req.kind = "openai.ChatCompletionRequest" ->
         Len(msg.MultiContent) + (IF msg.Content # "" THEN 1 ELSE 0)
    [] req.kind = "gemini.GeminiChatRequest" -> Len(msg.Parts)
    [] req.kind = "claude.ClaudeRequest" ->
         IF msg.Content.t = "parts" THEN Len(msg.Content.parts)
         ELSE IF msg.Content.t = "string" /\ msg.Content.s # "" THEN 1
         ELSE 0

\* C16: FromUnified turns a unified message without tool calls into a
\* provider message holding one part for each of its Parts, after one text
\* part when its Content is not empty.
C16_OnePartPerUnifiedPart ==
  (op.name = "FromUnified" /\ ~HasPrev(op) /\ res.err = NoErr
     /\ Len(SourceMessages(res.val[1])) = Len(op.unified.Messages))
    => \A i \in 1..Len(op.unified.Messages) :
         (op.unified.Messages[i].ToolCalls = <<>> /\ op.unified.Messages[i].ToolCallID = "")
           => TargetPartCount(res.val[1], SourceMessages(res.val[1])[i])
                = Len(op.unified.Messages[i].Parts)
                    + (IF op.unified.Messages[i].Content # "" THEN 1 ELSE 0)

-----------------------------------------------------------------------------
(* Properties of the conversions of error responses.                       *)

\* the content entries of a provider response
ResponseContentOf(resp) ==
  CASE resp.kind = "openai.ChatCompletionResponse" -> resp.Choices
    [] resp.kind = "gemini.GeminiChatResponse" -> resp.Candidates
    [] resp.kind = "claude.ClaudeResponse" -> resp.Content

\* C17: a unified response with Error set, returned by ResponseToUnified, has
\* no choices and no usage; ResponseFromUnified of a unified response with
\* Error set returns a provider response that carries that error and has no
\* content.
C17_ErrorResponseHasNoContent ==
  /\ (op.name = "ResponseToUnified" /\ res.err = NoErr /\ res.val[1].Error # Nil)
       => res.val[1].Choices = <<>> /\ res.val[1].Usage = Nil
  /\ (op.name = "ResponseFromUnified" /\ res.err = NoErr /\ op.unified.Error # Nil)
       => /\ "Error" \in DOMAIN res.val[1]
          /\ res.val[1].Error = op.unified.Error
          /\ ResponseContentOf(res.val[1]) = <<>>

-----------------------------------------------------------------------------
(* Properties of FromUnified on requests the target cannot fully express.   *)

NamesOf(tools) == Map(LAMBDA tool : tool.Name, tools)

\* the number of tools a Gemini tool list stands for: one per built-in entry
\* and one per function declaration
GeminiToolCount(tools) ==
  Len(SelectSeq(tools, LAMBDA tool : tool.FunctionDeclarations.t = "nil"))
    + Len(Flatten(Map(LAMBDA tool : tool.FunctionDeclarations.decls, tools)))

\* C18: FromUnified of every adapter returns a request and no error; the
\* request has one message per unified message; OpenAI gets every tool, Gemini
\* gets every tool as a built-in or as a function declaration, Claude gets
\* every function tool, in order.
C18_FromUnifiedAlwaysConverts ==
  op.name = "FromUnified"
    => /\ res.err = NoErr
       /\ res.val # Nil
       /\ Len(SourceMessages(res.val[1])) = Len(op.unified.Messages)
       /\ op.provider = ProviderOpenAI
            => NamesOf(Map(LAMBDA tool : tool.Function[1], res.val[1].Tools))
                 = NamesOf(op.unified.Tools)
       /\ op.provider = ProviderGemini
            => GeminiToolCount(res.val[1].Tools) = Len(op.unified.Tools)
       /\ op.provider = ProviderClaude
            => NamesOf(res.val[1].Tools)
                 = NamesOf(SelectSeq(op.unified.Tools, LAMBDA tool : tool.Type = "function"))

\* Claude is given a function tool next to a tool of another type
C18_Witness ==
  /\ op.name = "FromUnified" /\ op.provider = ProviderClaude
  /\ \E i \in 1..Len(op.unified.Tools) : op.unified.Tools[i].Type # "function"
  /\ Len(res.val[1].Tools) = 1

-----------------------------------------------------------------------------
(* The registries under concurrent use.  A setup phase makes the Register  *)
(* calls; after it (op.serving) every goroutine makes one call of the      *)
(* registry API, one read of the table at a time.  op.calls[g] is the call *)
(* of goroutine g with its arguments, its position pc and its local        *)
(* variables (found: the transformers looked up so far; seen: the keys the *)
(* range loop met so far), res[g] what it returned and dst[g] the object   *)
(* behind its dst pointer.                                                 *)

Goroutines == {"g1", "g2"}

IdleCall == [name |-> "idle", pc |-> "idle"]

\* the adapters the setup phase registers
SetupHubTransformers ==
  {[provider |-> ProviderOpenAI, id |-> "t1"], [provider |-> ProviderOpenAI, id |-> "t2"],
   [provider |-> ProviderGemini, id |-> "t1"]}

SetupDirectTransformers ==
  {<<ProviderClaude, ProviderOpenAI, "ClaudeTransformer">>,
   <<ProviderOpenAI, ProviderGemini, "OpenAITransformer">>,
   <<ProviderOpenAI, ProviderGemini, "ClaudeTransformer">>}

GoCall(name, pc, sourceProvider, targetProvider, typ, src, target) ==
  [name |-> name, pc |-> pc, source |-> sourceProvider, target |-> targetProvider,
   typ |-> typ, src |-> src, dst |-> target, found |-> <<>>, seen |-> <<>>]

\* the calls the goroutines make on the provider-keyed registry
HubGoCalls ==
  {GoCall("Transform", "source", pair[1], pair[2], TransformerTypeRequest,
          OpenAI_Request("m", 1, <<OpenAI_TextMessage("user", "a")>>), Nil) :
     pair \in {<<ProviderOpenAI, ProviderGemini>>, <<ProviderClaude, ProviderOpenAI>>,
               <<ProviderOpenAI, ProviderOpenAI>>}}
  \cup {GoCall("TransformResponse", "source", pair[1], pair[2], TransformerTypeResponse,
               OpenAI_TextResponse("stop", "a", OpenAI_Usage(1, 1, 2)), Nil) :
          pair \in {<<ProviderOpenAI, ProviderGemini>>, <<ProviderOpenAI, ProviderClaude>>}}
  \cup {GoCall(name, "range", "", "", "", Nil, Nil) :
          name \in {"GetSupportedProviders", "GetAvailableTransformations"}}

\* the calls the goroutines make on the pair-keyed registry
DirectGoCalls ==
  {GoCall("Transform", "source", pair[1], pair[2], TransformerTypeRequest,
          OpenAI_Request("m", 1, <<OpenAI_TextMessage("user", "b")>>), Some(Gemini_NoRequest)) :
     pair \in {<<ProviderOpenAI, ProviderGemini>>, <<ProviderGemini, ProviderOpenAI>>}}
  \cup {GoCall("Transform", "source", ProviderClaude, ProviderOpenAI, TransformerTypeRequest,
               Claude_Request("m", 1, "", <<Claude_TextMessage("user", "a")>>),
               Some(OpenAI_NoRequest))}
  \cup {GoCall(name, "range", "", "", "", Nil, Nil) :
          name \in {"GetSupportedProviders", "GetAvailableTransformations"}}

InitGoroutines ==
  /\ design \in {"hub", "direct"}
  /\ transformers = NewTransformationRegistry
  /\ history = <<>>
  /\ op = [name |-> "goroutines", serving |-> FALSE, calls |-> [g \in Goroutines |-> IdleCall]]
  /\ res = [g \in Goroutines |-> NoResult]
  /\ dst = [g \in Goroutines |-> Nil]

SetupHubRegister(transformer) ==
  /\ design = "hub"
  /\ ~op.serving
  /\ Len(history) < MaxRegister
  /\ transformers' = Register(transformers, transformer)
  /\ history' = Append(history, transformer)
  /\ UNCHANGED <<design, op, res, dst>>

SetupDirectRegister(sourceProvider, targetProvider, transformer) ==
  /\ design = "direct"
  /\ ~op.serving
  /\ Len(history) < MaxRegister
  /\ transformers' = Direct_Register(transformers, sourceProvider, targetProvider, transformer)
  /\ history' = Append(history, [source |-> sourceProvider, target |-> targetProvider,
                                 transformer |-> transformer])
  /\ UNCHANGED <<design, op, res, dst>>

\* the last Register call has returned; the goroutines are started after it
StartServing ==
  /\ ~op.serving
  /\ op' = [op EXCEPT !.serving = TRUE]
  /\ UNCHANGED <<design, transformers, history, res, dst>>

\* goroutine g enters a call of the registry API
Go(g, call) ==
  /\ op.serving
  /\ op.calls[g].pc = "idle"
  /\ call \in (IF design = "hub" THEN HubGoCalls ELSE DirectGoCalls)
  /\ op' = [op EXCEPT !.calls[g] = call]
  /\ dst' = [dst EXCEPT ![g] = call.dst]
  /\ UNCHANGED <<design, transformers, history, res>>

\* a lookup that registers a default adapter for a provider it does not find
LookupTransformer_RegisterOnMiss(g) ==
  /\ design = "hub"
  /\ op.calls[g].pc \in {"source", "target"}
  /\ LET call == op.calls[g]
         provider == IF call.pc = "source" THEN call.source ELSE call.target
         r == Register(transformers, [provider |-> provider, id |-> "t1"])
     IN  /\ transformers' = IF provider \in DOMAIN transformers THEN transformers ELSE r
         /\ op' = [op EXCEPT !.calls[g].found = Append(call.found, transformers'[provider]),
                             !.calls[g].pc = IF call.pc = "source" THEN "target" ELSE "convert"]
         /\ UNCHANGED <<design, history, res, dst>>

\* r.transformers[sourceProvider], then r.transformers[targetProvider], of the
\* provider-keyed Transform and TransformResponse
LookupTransformer(g) ==
  /\ design = "hub"
  /\ op.calls[g].pc \in {"source", "target"}
  /\ LET call == op.calls[g]
         provider == IF call.pc = "source" THEN call.source ELSE call.target
     IN  IF provider \notin DOMAIN transformers
           THEN /\ res' = [res EXCEPT ![g] = TransformerNotFound(
                             "transformer not found for " \o call.pc \o " provider: "
                               \o provider)]
                /\ op' = [op EXCEPT !.calls[g].pc = "done"]
           ELSE /\ op' = [op EXCEPT
                            !.calls[g].found = Append(call.found, transformers[provider]),
                            !.calls[g].pc = IF call.pc = "source" THEN "target" ELSE "convert"]
                /\ UNCHANGED res
  /\ UNCHANGED <<design, transformers, history, dst>>

\* the two adapter calls of the provider-keyed Transform and TransformResponse,
\* made on the transformers the lookups returned
ConvertWith(name, sourceTransformer, targetTransformer, payload) ==
  LET unified == IF name = "Transform"
                   THEN ToUnified(GetProvider(sourceTransformer), payload)
                   ELSE ResponseToUnified(GetProvider(sourceTransformer), payload)
      to == IF name = "Transform" THEN "ToUnified" ELSE "ResponseToUnified"
      from == IF name = "Transform" THEN "FromUnified" ELSE "ResponseFromUnified"
      out == IF name = "Transform"
               THEN FromUnified(GetProvider(targetTransformer), unified.val[1])
               ELSE ResponseFromUnified(GetProvider(targetTransformer), unified.val[1])
  IN  IF unified.err # NoErr
        THEN [NoResult EXCEPT !.err = unified.err,
                              !.calls = <<Invoked(sourceTransformer, to)>>]
        ELSE [NoResult EXCEPT !.val = out.val, !.err = out.err,
                              !.calls = <<Invoked(sourceTransformer, to),
                                          Invoked(targetTransformer, from)>>]

HubConvert(g) ==
  /\ design = "hub"
  /\ op.calls[g].pc = "convert"
  /\ res' = [res EXCEPT ![g] = ConvertWith(op.calls[g].name, op.calls[g].found[1],
                                           op.calls[g].found[2], op.calls[g].src)]
  /\ op' = [op EXCEPT !.calls[g].pc = "done"]
  /\ UNCHANGED <<design, transformers, history, dst>>

\* r.GetTransformer(sourceProvider, targetProvider) of the pair-keyed Transform
DirectLookup(g) ==
  /\ design = "direct"
  /\ op.calls[g].pc = "source"
  /\ LET call == op.calls[g]
         got == Direct_GetTransformer(transformers, call.source, call.target)
     IN  IF ~got.exists
           THEN /\ res' = [res EXCEPT ![g] = TransformerNotFound(
                             "transformer not found for " \o call.source \o " -> "
                               \o call.target)]
                /\ op' = [op EXCEPT !.calls[g].pc = "done"]
           ELSE /\ op' = [op EXCEPT !.calls[g].found = <<got.transformer[1]>>,
                                    !.calls[g].pc = "convert"]
                /\ UNCHANGED res
  /\ UNCHANGED <<design, transformers, history, dst>>

\* transformer.Do(ctx, typ, src, dst) of the pair-keyed Transform
DirectDo(g) ==
  /\ design = "direct"
  /\ op.calls[g].pc = "convert"
  /\ LET call == op.calls[g]
         done == Do(call.found[1], call.typ, call.src, call.dst[1])
     IN  /\ res' = [res EXCEPT ![g] = [NoResult EXCEPT
                                         !.err = done.err, !.panic = done.panic,
                                         !.calls = <<Invoked(call.found[1], "Do")>>]]
         /\ dst' = [dst EXCEPT ![g] = Some(done.dst)]
  /\ op' = [op EXCEPT !.calls[g].pc = "done"]
  /\ UNCHANGED <<design, transformers, history>>

\* one iteration of `for key := range r.transformers`
RangeNext(g) ==
  /\ op.calls[g].pc = "range"
  /\ \E key \in DOMAIN transformers \ {op.calls[g].seen[i] : i \in 1..Len(op.calls[g].seen)} :
       op' = [op EXCEPT !.calls[g].seen = Append(op.calls[g].seen, key)]
  /\ UNCHANGED <<design, transformers, history, res, dst>>

\* the range loop has met every key: the call returns what it collected
RangeReturn(g) ==
  /\ op.calls[g].pc = "range"
  /\ DOMAIN transformers \subseteq {op.calls[g].seen[i] : i \in 1..Len(op.calls[g].seen)}
  /\ LET call == op.calls[g]
         providerMap == Direct_ProviderMap([key \in {call.seen[i] : i \in 1..Len(call.seen)}
                                              |-> TRUE])
     IN  CASE design = "hub" /\ call.name = "GetSupportedProviders" ->
                res' = [res EXCEPT ![g] = [NoResult EXCEPT
                                             !.val = GetSupportedProviders(call.seen)]]
           [] design = "hub" /\ call.name = "GetAvailableTransformations" ->
                res' = [res EXCEPT ![g] = [NoResult EXCEPT
                                             !.val = GetAvailableTransformations(call.seen)]]
           [] design = "direct" /\ call.name = "GetAvailableTransformations" ->
                res' = [res EXCEPT ![g] = [NoResult EXCEPT
                                             !.val = Direct_GetAvailableTransformations(
                                                       call.seen)]]
           [] design = "direct" /\ call.name = "GetSupportedProviders" ->
                \E providers \in Orders(providerMap) :
                  res' = [res EXCEPT ![g] = [NoResult EXCEPT
                                               !.val = Direct_GetSupportedProviders(
                                                         providers)]]
  /\ op' = [op EXCEPT !.calls[g].pc = "done"]
  /\ UNCHANGED <<design, transformers, history, dst>>

NextGoroutines ==
  \/ \E transformer \in SetupHubTransformers : SetupHubRegister(transformer)
  \/ \E entry \in SetupDirectTransformers : SetupDirectRegister(entry[1], entry[2], entry[3])
  \/ StartServing
  \/ \E g \in Goroutines, call \in HubGoCalls \cup DirectGoCalls : Go(g, call)
  \/ \E g \in Goroutines : LookupTransformer(g)
  \/ \E g \in Goroutines : HubConvert(g)
  \/ \E g \in Goroutines : DirectLookup(g)
  \/ \E g \in Goroutines : DirectDo(g)
  \/ \E g \in Goroutines : RangeNext(g)
  \/ \E g \in Goroutines : RangeReturn(g)

SpecGoroutines == InitGoroutines /\ [][NextGoroutines]_vars

-----------------------------------------------------------------------------
(* Properties of the registries under concurrent use.                      *)

\* what the call returns when it runs alone on the table: the results, and
\* for the pair-keyed Transform the object behind dst afterwards
AloneResults(call) ==
  CASE design = "hub" /\ call.name = "Transform" ->
         {Transform(transformers, call.source, call.target, call.src)}
    [] design = "hub" /\ call.name = "TransformResponse" ->
         {TransformResponse(transformers, call.source, call.target, call.src)}
    [] design = "hub" /\ call.name = "GetSupportedProviders" ->
         {[NoResult EXCEPT !.val = GetSupportedProviders(providers)] :
            providers \in Orders(DOMAIN transformers)}
    [] design = "hub" /\ call.name = "GetAvailableTransformations" ->
         {[NoResult EXCEPT !.val = GetAvailableTransformations(providers)] :
            providers \in Orders(DOMAIN transformers)}
    [] design = "direct" /\ call.name = "Transform" ->
         {Direct_Transform(transformers, call.source, call.target, call.typ, call.src,
                           call.dst[1]).result}
    [] design = "direct" /\ call.name = "GetSupportedProviders" ->
         {[NoResult EXCEPT !.val = Direct_GetSupportedProviders(providers)] :
            providers \in Orders(Direct_ProviderMap(transformers))}
    [] design = "direct" /\ call.name = "GetAvailableTransformations" ->
         {[NoResult EXCEPT !.val = Direct_GetAvailableTransformations(keys)] :
            keys \in Orders(DOMAIN transformers)}

AloneDst(call) ==
  IF design = "direct" /\ call.name = "Transform"
    THEN Some(Direct_Transform(transformers, call.source, call.target, call.typ, call.src,
                               call.dst[1]).dst)
    ELSE Nil

ReturnedAsAlone ==
  \A g \in Goroutines :
    op.calls[g].pc = "done"
      => res[g] \in AloneResults(op.calls[g]) /\ dst[g] = AloneDst(op.calls[g])

\* C19: once the Register calls have completed, no step of a concurrent
\* Transform, TransformResponse, GetSupportedProviders or
\* GetAvailableTransformations changes the table, and every such call returns
\* a result it can return when it runs alone on that table.
C19_ConcurrentCallsOnlyRead ==
  /\ []ReturnedAsAlone
  /\ [][op.serving => transformers' = transformers /\ history' = history]_vars

\* one goroutine has returned from a Transform that converted while the other
\* is between the two lookups of its own call
C19_Witness ==
  /\ op.name = "goroutines" /\ op.serving
  /\ op.calls["g1"].pc = "target"
  /\ op.calls["g2"].pc = "done" /\ op.calls["g2"].name = "Transform"
  /\ res["g2"].err = NoErr /\ res["g2"].val # Nil

-----------------------------------------------------------------------------
(* Properties of the introspection calls.                                  *)

\* the providers the Register calls so far named: the adapters' providers, and
\* for the pair-keyed registry the sources and targets of the pairs
RegisteredProviders ==
  IF design = "hub" THEN {GetProvider(history[i]) : i \in 1..Len(history)}
  ELSE {history[i].source : i \in 1..Len(history)}
         \cup {history[i].target : i \in 1..Len(history)}

\* C20: GetSupportedProviders returns exactly the providers registered so
\* far, each once (three once an OpenAI, a Gemini and a Claude adapter are
\* registered), and a GetSupportedProviders or GetAvailableTransformations
\* call leaves the registry as it was.
C20_IntrospectionIsPure ==
  /\ [](op.name = "GetSupportedProviders"
          => /\ NoDuplicates(res.val)
             /\ {res.val[i] : i \in 1..Len(res.val)} = RegisteredProviders
             /\ (design = "hub" /\ RegisteredProviders = Providers) => Len(res.val) = 3)
  /\ [][op'.name \in {"GetSupportedProviders", "GetAvailableTransformations"}
          => transformers' = transformers /\ history' = history]_vars

\* GetSupportedProviders after an OpenAI, a Gemini and a Claude adapter were
\* registered
C20_Witness ==
  /\ design = "hub"
  /\ op.name = "GetSupportedProviders"
  /\ Len(history) = 3
  /\ Len(res.val) = 3

-----------------------------------------------------------------------------
(* The WebAssembly front end.  A request is given as JSON text, modelled   *)
(* by the object json.Unmarshal decodes it to; what a call returns to      *)
(* JavaScript is modelled as a registry result: val the "result" (or the   *)
(* "transformations") of a success, err the "error" message, panic whether *)
(* the deferred recover caught a panic (the call then returns nothing).    *)

supportedProviders == <<ProviderOpenAI, ProviderGemini, ProviderClaude>>

createErrorResult(message) == [NoResult EXCEPT !.err = message]

wasm_getAvailableTransformations ==
  LET n == Len(supportedProviders)
      all == [k \in 1..(n * n) |-> [source |-> supportedProviders[((k - 1) \div n) + 1],
                                    target |-> supportedProviders[((k - 1) % n) + 1]]]
  IN  [NoResult EXCEPT !.val = Some(SelectSeq(all, LAMBDA pair : pair.source # pair.target))]

getDirectTransformer(sourceProvider) ==
  CASE sourceProvider = ProviderOpenAI -> Some("OpenAITransformer")
    [] sourceProvider = ProviderClaude -> Some("ClaudeTransformer")
    [] OTHER -> Nil

\* the zero-valued destination request of a provider
wasm_NewRequest(provider) ==
  CASE provider = ProviderOpenAI -> OpenAI_NoRequest
    [] provider = ProviderGemini -> Gemini_NoRequest
    [] provider = ProviderClaude -> Claude_NoRequest

wasm_transformRequest(sourceProvider, targetProvider, srcRequest) ==
  IF sourceProvider \notin Providers
    THEN createErrorResult("Unsupported source provider: " \o sourceProvider)
  ELSE IF targetProvider \notin Providers
    THEN createErrorResult("Unsupported target provider: " \o targetProvider)
  ELSE IF getDirectTransformer(sourceProvider) = Nil
    THEN createErrorResult("No transformer available for " \o sourceProvider \o " -> "
                             \o targetProvider)
  ELSE LET done == Do(getDirectTransformer(sourceProvider)[1], TransformerTypeRequest,
                      srcRequest, wasm_NewRequest(targetProvider))
       IN  IF done.panic THEN [NoResult EXCEPT !.panic = TRUE]
           ELSE IF done.err # NoErr
             THEN createErrorResult("Failed to transform request: " \o done.err)
           ELSE [NoResult EXCEPT !.val = Some(done.dst)]

\* the zero-valued destination chunk of a provider
wasm_NewChunk(provider) ==
  CASE provider = ProviderOpenAI ->
         [kind |-> "openai.ChatCompletionStreamResponse", ID |-> "", Model |-> "",
          Choices |-> <<>>]
    [] provider = ProviderClaude -> Claude_NoResponse

wasm_transformChunk(sourceProvider, targetProvider, srcChunk) ==
  IF sourceProvider \notin {ProviderOpenAI, ProviderClaude}
    THEN createErrorResult("Unsupported source provider for chunk: " \o sourceProvider)
  ELSE IF targetProvider \notin {ProviderOpenAI, ProviderClaude}
    THEN createErrorResult("Unsupported target provider for chunk: " \o targetProvider)
  ELSE LET done == Do(getDirectTransformer(sourceProvider)[1], TransformerTypeChunk,
                      srcChunk, wasm_NewChunk(targetProvider))
       IN  IF done.panic THEN [NoResult EXCEPT !.panic = TRUE]
           ELSE IF done.err # NoErr
             THEN createErrorResult("Failed to transform chunk: " \o done.err)
           ELSE [NoResult EXCEPT !.val = Some(done.dst)]

\* an OpenAI stream chunk whose delta carries one tool-call fragment
OpenAI_ToolChunk(index, name, fragment) ==
  [kind |-> "openai.ChatCompletionStreamResponse", ID |-> "id", Model |-> "m",
   Choices |-> <<[Index |-> 0, FinishReason |-> "",
                  Delta |-> [Role |-> "assistant", Content |-> "",
                             ToolCalls |-> <<[Index |-> Some(index), ID |-> "", Type |-> "function",
                                              Function |-> [Name |-> name,
                                                            Arguments |-> fragment]]>>]]>>]

\* a Claude stream chunk
Claude_TextChunk(text) ==
  [Claude_NoResponse EXCEPT
     !.Id = "id", !.Type = "content_block_delta", !.Model = "m",
     !.Content = <<[Claude_NoPart EXCEPT !.Type = "text", !.Text = Some(text)]>>]

MaxChunks == 2

StreamChunks ==
  [openai |-> {OpenAI_ToolChunk(0, "get_weather", "{\"locat"),
               OpenAI_ToolChunk(0, "", "ion\":\"NYC\"}"),
               OpenAI_ToolChunk(1, "f", "{}")},
   claude |-> {Claude_TextChunk("a"), Claude_TextChunk("b")}]

\* the logical streams: a source provider and the chunks it sends, in order
Streams ==
  {[kind |-> "stream", provider |-> provider, chunks |-> chunks] :
     provider \in {ProviderOpenAI}, chunks \in SeqsUpTo(StreamChunks.openai, MaxChunks) \ {<<>>}}
  \cup {[kind |-> "stream", provider |-> provider, chunks |-> chunks] :
          provider \in {ProviderClaude},
          chunks \in SeqsUpTo(StreamChunks.claude, MaxChunks) \ {<<>>}}

\* the provider whose request type a request has
ProviderOfRequest(req) ==
  CASE req.kind = "openai.ChatCompletionRequest" -> ProviderOpenAI
    [] req.kind = "gemini.GeminiChatRequest" -> ProviderGemini
    [] req.kind = "claude.ClaudeRequest" -> ProviderClaude

InitWasm ==
  /\ design = "direct"
  /\ history = <<>>
  /\ transformers = NewTransformationRegistry
  /\ \E input \in Requests \cup RichRequests \cup Streams :
       op = [name |-> "caller", input |-> input]
  /\ res = NoResult
  /\ dst = Nil

\* transformRequest(sourceProvider, targetProvider, requestJson), requestJson
\* the JSON text of a request of the source provider
CallWasmTransformRequest(targetProvider) ==
  /\ op.name = "caller"
  /\ op.input.kind # "stream"
  /\ op' = [name |-> "transformRequest", source |-> ProviderOfRequest(op.input),
            target |-> targetProvider, request |-> op.input]
  /\ res' = wasm_transformRequest(ProviderOfRequest(op.input), targetProvider, op.input)
  /\ UNCHANGED <<design, transformers, history, dst>>

CallWasmGetAvailableTransformations ==
  /\ op.name = "caller"
  /\ op' = [name |-> "getAvailableTransformations"]
  /\ res' = wasm_getAvailableTransformations
  /\ UNCHANGED <<design, transformers, history, dst>>

\* transformChunk(sourceProvider, targetProvider, chunkJson) on the first chunk
\* of a stream
CallWasmTransformFirstChunk(targetProvider) ==
  /\ op.name = "caller"
  /\ op.input.kind = "stream"
  /\ op' = [name |-> "transformChunk", source |-> op.input.provider,
            target |-> targetProvider, stream |-> op.input, fed |-> 1,
            results |-> <<wasm_transformChunk(op.input.provider, targetProvider,
                                             op.input.chunks[1])>>]
  /\ res' = wasm_transformChunk(op.input.provider, targetProvider, op.input.chunks[1])
  /\ UNCHANGED <<design, transformers, history, dst>>

\* transformChunk on the next chunk of the stream; nothing of the earlier
\* calls is passed on: each call gets the chunk and a new destination
CallWasmTransformNextChunk ==
  /\ op.name = "transformChunk"
  /\ op.fed < Len(op.stream.chunks)
  /\ op' = [op EXCEPT
              !.fed = op.fed + 1,
              !.results = Append(op.results,
                                 wasm_transformChunk(op.source, op.target,
                                                     op.stream.chunks[op.fed + 1]))]
  /\ res' = wasm_transformChunk(op.source, op.target, op.stream.chunks[op.fed + 1])
  /\ UNCHANGED <<design, transformers, history, dst>>

NextWasm ==
  \/ \E targetProvider \in Providers : CallWasmTransformRequest(targetProvider)
  \/ CallWasmGetAvailableTransformations
  \/ \E targetProvider \in Providers : CallWasmTransformFirstChunk(targetProvider)
  \/ CallWasmTransformNextChunk

SpecWasm == InitWasm /\ [][NextWasm]_vars

\* the pairs getAvailableTransformations reports
ReportedPairs ==
  {<<wasm_getAvailableTransformations.val[1][i].source,
     wasm_getAvailableTransformations.val[1][i].target>> :
     i \in 1..Len(wasm_getAvailableTransformations.val[1])}

\* C21: getAvailableTransformations reports exactly the ordered pairs of
\* distinct providers, and transformRequest for a reported pair, on a request
\* that is valid for the source provider, returns a success with a result.
C21_EveryReportedPairConverts ==
  /\ op.name = "getAvailableTransformations"
       => /\ ReportedPairs = {pair \in Providers \X Providers : pair[1] # pair[2]}
          /\ Len(res.val[1]) = 6
  /\ (/\ op.name = "transformRequest"
      /\ <<op.source, op.target>> \in ReportedPairs
      /\ ValidateRequest(op.source, op.request) = NoErr)
       => res.err = NoErr /\ ~res.panic /\ res.val # Nil

\* the tool calls a Claude response holds, each as its name and arguments text
ToolUsesOf(resp) ==
  Map(LAMBDA part : [Name |-> part.Name, Arguments |-> part.Input],
      SelectSeq(resp.Content, LAMBDA part : part.Type = "tool_use"))

\* C22: after a stream has sent the chunk with tool index 0, name get_weather
\* and fragment {"locat and then the chunk with tool index 0 and fragment
\* ion":"NYC"}, both chunk conversions have succeeded and what the second one
\* returns holds exactly one tool call, named get_weather, with the arguments
\* {"location":"NYC"}.
C22_TwoChunksOneToolCall ==
  (/\ op.name = "transformChunk" /\ op.fed = 2
   /\ op.source = ProviderOpenAI /\ op.target = ProviderClaude
   /\ op.stream.chunks = <<OpenAI_ToolChunk(0, "get_weather", "{\"locat"),
                           OpenAI_ToolChunk(0, "", "ion\":\"NYC\"}")>>)
    => /\ \A i \in 1..2 : op.results[i].err = NoErr /\ ~op.results[i].panic
       /\ res.val # Nil
       /\ ToolUsesOf(res.val[1])
            = <<[Name |-> "get_weather", Arguments |-> "{\"location\":\"NYC\"}"]>>

-----------------------------------------------------------------------------
(* The direct transformers called by hand: a caller holds a source object  *)
(* (a conversation, a response, a stream chunk), picks a transformer, a    *)
(* transformation type and a destination, and calls Do once.               *)

MaxTurns == 3

\* the messages of the OpenAI conversations
OpenAITurns ==
  {[OpenAI_TextMessage("assistant", "") EXCEPT !.ToolCalls = <<OpenAI_ToolCall(JSONEmpty)>>],
   [OpenAI_TextMessage("tool", "r") EXCEPT !.ToolCallID = "id1"],
   [OpenAI_TextMessage("tool", "r") EXCEPT !.ToolCallID = "id1", !.Name = "g"],
   OpenAI_TextMessage("system", "s1"),
   OpenAI_TextMessage("developer", "s2"),
   OpenAI_TextMessage("user", "a")}

OpenAIConversations ==
  {OpenAI_Request("m", 1, messages) : messages \in SeqsUpTo(OpenAITurns, MaxTurns)}

Claude_ToolResult(toolUseId) ==
  [Claude_NoPart EXCEPT !.Type = "tool_result", !.ToolUseId = toolUseId,
                        !.Content = AnyString("r")]

Claude_Text(text) == [Claude_NoPart EXCEPT !.Type = "text", !.Text = Some(text)]

Claude_ToolUse(id) ==
  [Claude_NoPart EXCEPT !.Type = "tool_use", !.Id = id, !.Name = "f",
                        !.Input = Some([k \in {"q"} |-> [type |-> "string", s |-> "x", n |-> 0]])]

\* the messages of the Claude conversations
ClaudeTurns ==
  {[Role |-> "user", Content |-> AnyParts(parts)] :
     parts \in {<<Claude_ToolResult("id1")>>,
                <<Claude_ToolResult("id1"), Claude_ToolResult("id2")>>,
                <<Claude_Text("t"), Claude_ToolResult("id1")>>,
                <<Claude_ToolResult("id2"), Claude_Text("u")>>,
                <<Claude_Text("t")>>}}
  \cup {[Role |-> "assistant", Content |-> AnyParts(<<Claude_Text("u"), Claude_ToolUse("id1")>>)]}

ClaudeConversations ==
  {Claude_Request("m", 1, "", messages) : messages \in SeqsUpTo(ClaudeTurns, MaxMsgs)}

\* the unified requests a caller may build: with or without a system prompt,
\* and with system-role messages at any position
UnifiedConversations ==
  {[Unified_Request("m", 1, Map(LAMBDA m : Unified_TextMessage(m.role, m.text), messages))
      EXCEPT !.SystemPrompt = prompt] :
     prompt \in Prompts, messages \in PlainMessages(Roles)}

\* tools of every class: functions, tools with a built-in type, and a function
\* tool named like a built-in
ClassifiedTools ==
  {[Type |-> "function", Name |-> "f", Description |-> "d", Parameters |-> Nil],
   [Type |-> "function", Name |-> "g", Description |-> "e",
    Parameters |-> Some([k \in {"q"} |-> [type |-> "string", s |-> "x", n |-> 0]])],
   [Type |-> "code_execution", Name |-> "x", Description |-> "d", Parameters |-> Nil],
   [Type |-> "google_search", Name |-> "x", Description |-> "d", Parameters |-> Nil],
   [Type |-> "google_search_retrieval", Name |-> "x", Description |-> "d", Parameters |-> Nil],
   [Type |-> "function", Name |-> "search", Description |-> "d", Parameters |-> Nil]}

UnifiedToolRequests ==
  {[Unified_Request("m", 1, <<Unified_TextMessage("user", "a")>>) EXCEPT !.Tools = tools] :
     tools \in SeqsUpTo(ClassifiedTools, MaxTools)}

\* OpenAI responses with and without the details of the prompt tokens
OpenAIUsageResponses ==
  {OpenAI_TextResponse("stop", "a",
                       [OpenAI_Usage(prompt, completion, prompt + completion) EXCEPT
                          !.PromptTokensDetails = details]) :
     prompt \in TokenCounts, completion \in TokenCounts,
     details \in {Nil} \cup {Some([CachedTokens |-> 0, CacheCreationInputTokens |-> creation,
                                  CacheReadInputTokens |-> read]) :
                             creation \in TokenCounts, read \in TokenCounts}}

Gemini_FunctionCallPart(name) ==
  [Gemini_TextPart("") EXCEPT
     !.FunctionCall = Some([FunctionName |-> name,
                            Arguments |-> Some([k \in {"q"} |-> [type |-> "string",
                                                                s |-> "x", n |-> 0]])])]

\* the parts of the Gemini payloads with function calls
GeminiCallParts == {Gemini_FunctionCallPart("f"), Gemini_FunctionCallPart("g"), Gemini_TextPart("t")}

\* Gemini requests and responses whose one content holds function calls
GeminiCallPayloads ==
  {Gemini_Request(1, <<[Role |-> "model", Parts |-> parts]>>) :
     parts \in SeqsUpTo(GeminiCallParts, MaxParts) \ {<<>>}}
  \cup {[Gemini_TextResponse(Some("STOP"), "", Gemini_UsageMetadata(1, 1, 2)) EXCEPT
           !.Candidates[1].Content.Parts = parts] :
          parts \in SeqsUpTo(GeminiCallParts, MaxParts) \ {<<>>}}

\* what a caller may pass as src
DirectSources ==
  OpenAIConversations \cup ClaudeConversations \cup OpenAIUsageResponses \cup GeminiCallPayloads
  \cup UNION {StreamChunks[provider] : provider \in DOMAIN StreamChunks}

\* what a caller may pass as dst
DirectTargets ==
  {OpenAI_NoRequest, Gemini_NoRequest, Claude_NoRequest, Claude_NoResponse,
   Claude_NoResponseList, wasm_NewChunk(ProviderOpenAI)}

InitDirect ==
  /\ design = "direct"
  /\ transformers = NewTransformationRegistry
  /\ history = <<>>
  /\ \E input \in DirectSources \cup UnifiedConversations \cup UnifiedToolRequests :
       op = [name |-> "caller", input |-> input]
  /\ res = NoResult
  /\ dst = Nil

\* transformer.Do(ctx, typ, src, dst)
CallDirectDo(transformer, typ, target) ==
  /\ op.name = "caller"
  /\ IsRequest(op.input)
  /\ op' = [name |-> "Do", transformer |-> transformer, typ |-> typ,
            src |-> op.input, dst |-> target]
  /\ res' = [NoResult EXCEPT !.err = Do(transformer, typ, op.input, target).err,
                             !.panic = Do(transformer, typ, op.input, target).panic]
  /\ dst' = Some(Do(transformer, typ, op.input, target).dst)
  /\ UNCHANGED <<design, transformers, history>>

\* ToUnified of the Gemini adapter on a Gemini request
CallGeminiToUnified ==
  /\ op.name = "caller"
  /\ IsRequest(op.input)
  /\ op.input.kind = "gemini.GeminiChatRequest"
  /\ CallToUnified(ProviderGemini)

\* ResponseToUnified of the Gemini adapter on a Gemini response
CallGeminiResponseToUnified ==
  /\ op.name = "caller"
  /\ IsRequest(op.input)
  /\ op.input.kind = "gemini.GeminiChatResponse"
  /\ CallResponseToUnified(ProviderGemini)

NextDirect ==
  \/ \E transformer \in DirectTransformers, typ \in TransformerTypes, target \in DirectTargets :
       CallDirectDo(transformer, typ, target)
  \/ \E provider \in Providers : CallFromUnified(provider)
  \/ CallGeminiToUnified
  \/ CallGeminiResponseToUnified

SpecDirect == InitDirect /\ [][NextDirect]_vars

\* the state after Do(request) of the OpenAI transformer into a Gemini request
DidOpenAIToGemini ==
  /\ op.name = "Do" /\ op.transformer = "OpenAITransformer"
  /\ op.typ = TransformerTypeRequest
  /\ op.src.kind = "openai.ChatCompletionRequest"
  /\ op.dst = Gemini_NoRequest

\* the messages of the source request that are not system or developer messages
SourceTurns == SelectSeq(op.src.Messages, LAMBDA message : message.Role \notin {"system", "developer"})

\* the tool calls of the assistant messages among the first n of messages
EarlierToolCalls(messages, n) ==
  Flatten([k \in 1..n |-> IF messages[k].Role = "assistant" THEN messages[k].ToolCalls ELSE <<>>])

\* the name the claim gives the function response of the tool message at j
ExpectedResponseName(messages, j) ==
  LET message == messages[j]
      calls == SelectSeq(EarlierToolCalls(messages, j - 1),
                         LAMBDA call : call.ID = message.ToolCallID)
  IN  IF message.Name # "" THEN message.Name
      ELSE IF Len(calls) > 0 THEN calls[Len(calls)].Function.Name
      ELSE ""

\* C23: after the direct OpenAI -> Gemini request conversion, the contents
\* follow the order of the non-system messages, and the function response of
\* every tool message carries the message's name when that is not empty,
\* otherwise the function name of the tool call with the message's tool call id
\* in an earlier assistant message, otherwise (the tool call comes later or
\* never) the empty name.
C23_ToolNameFromEarlierCall ==
  DidOpenAIToGemini
    => /\ res.err = NoErr /\ ~res.panic
       /\ Len(dst[1].Contents) = Len(SourceTurns)
       /\ \A j \in 1..Len(SourceTurns) :
            SourceTurns[j].Role = "tool"
              => /\ dst[1].Contents[j].Parts[1].FunctionResponse # Nil
                 /\ dst[1].Contents[j].Parts[1].FunctionResponse[1].Name
                      = ExpectedResponseName(SourceTurns, j)

\* a tool message without a name between two assistant messages with its tool
\* call, and a second tool message without a name before any tool call
C23_Witness ==
  /\ DidOpenAIToGemini
  /\ Len(SourceTurns) = 3
  /\ SourceTurns[1].Role = "tool" /\ SourceTurns[1].Name = ""
  /\ SourceTurns[2].Role = "assistant"
  /\ SourceTurns[3].Role = "tool" /\ SourceTurns[3].Name = ""
  /\ dst[1].Contents[1].Parts[1].FunctionResponse[1].Name = ""
  /\ dst[1].Contents[3].Parts[1].FunctionResponse[1].Name = "f"

\* the state after Do(request) of the Claude transformer into an OpenAI request
DidClaudeToOpenAI ==
  /\ op.name = "Do" /\ op.transformer = "ClaudeTransformer"
  /\ op.typ = TransformerTypeRequest
  /\ op.src.kind = "claude.ClaudeRequest"
  /\ op.dst = OpenAI_NoRequest

\* the blocks of a Claude message of the source request
BlocksOf(claudeMessage) == claudeMessage.Content.parts

\* role and tool_call_id of the OpenAI messages the claim expects for one
\* Claude message: one tool message per tool_result block, then the message
\* with the other blocks when there is any
ExpectedOpenAITurns(claudeMessage) ==
  Map(LAMBDA block : [Role |-> "tool", ToolCallID |-> block.ToolUseId],
      SelectSeq(BlocksOf(claudeMessage), LAMBDA block : block.Type = "tool_result"))
  \o (IF \E i \in 1..Len(BlocksOf(claudeMessage)) :
            BlocksOf(claudeMessage)[i].Type \in {"text", "image", "tool_use"}
        THEN <<[Role |-> claudeMessage.Role, ToolCallID |-> ""]>>
        ELSE <<>>)

\* C24: after the direct Claude -> OpenAI request conversion, the OpenAI
\* messages are, Claude message by Claude message, one tool message per
\* tool_result block with the block's tool_use_id as tool_call_id, followed by
\* the message that carries the text, image and tool_use blocks; a Claude
\* message made only of tool_result blocks contributes its tool messages alone.
C24_ToolResultsBecomeToolMessages ==
  DidClaudeToOpenAI
    => /\ res.err = NoErr /\ ~res.panic
       /\ Map(LAMBDA message : [Role |-> message.Role, ToolCallID |-> message.ToolCallID],
              dst[1].Messages)
            = Flatten(Map(ExpectedOpenAITurns, op.src.Messages))
       /\ \A i \in 1..Len(dst[1].Messages) :
            dst[1].Messages[i].Role # "tool"
              => Len(dst[1].Messages[i].MultiContent) + Len(dst[1].Messages[i].ToolCalls) > 0

\* a message with a text block before its tool_result block, then a message of
\* tool_result blocks only: the tool message comes first, and the second
\* message leaves two tool messages
C24_Witness ==
  /\ DidClaudeToOpenAI
  /\ Len(op.src.Messages) = 2
  /\ BlocksOf(op.src.Messages[1]) = <<Claude_Text("t"), Claude_ToolResult("id1")>>
  /\ BlocksOf(op.src.Messages[2]) = <<Claude_ToolResult("id1"), Claude_ToolResult("id2")>>
  /\ Map(LAMBDA message : message.Role, dst[1].Messages) = <<"tool", "user", "tool", "tool">>

\* the role the claim gives the Gemini content of a message that stays
GeminiRoleOf(role) ==
  CASE role = "assistant" -> "model"
    [] role = "tool" -> "user"
    [] OTHER -> role

\* the texts of the system and developer messages of the source request
SourceSystemTexts ==
  Map(LAMBDA message : message.Content,
      SelectSeq(op.src.Messages, LAMBDA message : message.Role \in {"system", "developer"}))

\* the texts, in order, with a newline between each two
RECURSIVE NewlineSeparated(_)
NewlineSeparated(ts) ==
  IF ts = <<>> THEN ""
  ELSE IF Len(ts) = 1 THEN ts[1]
  ELSE NewlineSeparated(SubSeq(ts, 1, Len(ts) - 1)) \o "\n" \o ts[Len(ts)]

\* the state after FromUnified of the Gemini adapter
DidGeminiFromUnified == op.name = "FromUnified" /\ op.provider = ProviderGemini

\* C25: no content of a converted Gemini request has the role system.  On the
\* direct path the system and developer messages are left out of the contents,
\* the other messages stay in their order, and the system instruction is one
\* part holding the texts of the system and developer messages, in their
\* order, joined by newlines.  On the hub path the system prompt of the unified
\* request is the system instruction and a system-role message of the unified
\* request is a user-role content at the same position.
C25_NoSystemRoleInGemini ==
  /\ DidOpenAIToGemini
       => /\ res.err = NoErr /\ ~res.panic
          /\ \A j \in 1..Len(dst[1].Contents) :
               dst[1].Contents[j].Role \notin {"system", "developer"}
          /\ Map(LAMBDA content : content.Role, dst[1].Contents)
               = Map(LAMBDA message : GeminiRoleOf(message.Role), SourceTurns)
          /\ IF SourceSystemTexts = <<>> THEN dst[1].SystemInstructions = Nil
             ELSE /\ dst[1].SystemInstructions # Nil
                  /\ Map(LAMBDA part : part.Text, dst[1].SystemInstructions[1].Parts)
                       = <<NewlineSeparated(SourceSystemTexts)>>
  /\ DidGeminiFromUnified
       => /\ res.err = NoErr
          /\ Len(res.val[1].Contents) = Len(op.unified.Messages)
          /\ \A j \in 1..Len(op.unified.Messages) :
               /\ res.val[1].Contents[j].Role # "system"
               /\ op.unified.Messages[j].Role = "system"
                    => /\ res.val[1].Contents[j].Role = "user"
                       /\ Gemini_extractTextFromParts(res.val[1].Contents[j].Parts)
                            = op.unified.Messages[j].Content
          /\ op.unified.SystemPrompt # ""
               => /\ res.val[1].SystemInstructions # Nil
                  /\ Map(LAMBDA part : part.Text, res.val[1].SystemInstructions[1].Parts)
                       = <<op.unified.SystemPrompt>>

\* a developer message, a user message and a system message, in that order:
\* one user content and the instruction s2, newline, s1
C25_Witness ==
  /\ DidOpenAIToGemini
  /\ Map(LAMBDA message : message.Role, op.src.Messages) = <<"developer", "user", "system">>
  /\ Map(LAMBDA content : content.Role, dst[1].Contents) = <<"user">>
  /\ dst[1].SystemInstructions[1].Parts[1].Text = "s2\ns1"

\* a unified request with a system prompt and a system-role message in second
\* position
C25_WitnessHub ==
  /\ DidGeminiFromUnified
  /\ op.unified.SystemPrompt = "p"
  /\ Len(op.unified.Messages) = 2
  /\ op.unified.Messages[2].Role = "system"
  /\ res.val[1].Contents[2].Role = "user"

\* the names that make a tool a built-in whatever its type
BuiltinAliases ==
  {"code_interpreter", "python", "code_execution", "codeExecution",
   "web_search", "google_search", "googleSearch", "search",
   "google_search_retrieval", "googleSearchRetrieval"}

\* the built-in entry the claim gives a tool by its type; Gemini_NoTool for a
\* type that is not a built-in
BuiltinEntryOfType(type) ==
  CASE type = "code_execution" -> [Gemini_NoTool EXCEPT !.CodeExecution = Some("{}")]
    [] type = "google_search" -> [Gemini_NoTool EXCEPT !.GoogleSearch = Some("{}")]
    [] type = "google_search_retrieval" ->
         [Gemini_NoTool EXCEPT !.GoogleSearchRetrieval = Some("{}")]
    [] OTHER -> Gemini_NoTool

\* the tools of the unified request that the claim makes function declarations
DeclaredTools ==
  SelectSeq(op.unified.Tools,
            LAMBDA tool : /\ tool.Name \notin BuiltinAliases
                          /\ BuiltinEntryOfType(tool.Type) = Gemini_NoTool)

\* the tools of the unified request that are built-ins, by name or by type
BuiltinTools ==
  SelectSeq(op.unified.Tools,
            LAMBDA tool : \/ tool.Name \in BuiltinAliases
                          \/ BuiltinEntryOfType(tool.Type) # Gemini_NoTool)

\* the entries of a Gemini tool list that hold function declarations, and the
\* entries that are built-ins
DeclarationEntries(tools) == SelectSeq(tools, LAMBDA entry : entry.FunctionDeclarations.t # "nil")

BuiltinEntries(tools) == SelectSeq(tools, LAMBDA entry : entry.FunctionDeclarations.t = "nil")

\* C26: FromUnified of the Gemini adapter gives every tool of the unified
\* request exactly one output.  A tool whose name is no built-in alias and
\* whose type is code_execution, google_search or google_search_retrieval is
\* the built-in entry of that type; a tool that is a built-in neither by name
\* nor by type is a function declaration with its name, description and
\* parameters unchanged; and all function declarations stand, in input order,
\* in a single tool entry.
C26_EveryToolHasOneOutput ==
  DidGeminiFromUnified
    => /\ res.err = NoErr
       /\ Len(BuiltinEntries(res.val[1].Tools)) = Len(BuiltinTools)
       /\ \A k \in 1..Len(BuiltinTools) :
            BuiltinTools[k].Name \notin BuiltinAliases
              => BuiltinEntries(res.val[1].Tools)[k] = BuiltinEntryOfType(BuiltinTools[k].Type)
       /\ Len(DeclarationEntries(res.val[1].Tools)) = (IF DeclaredTools = <<>> THEN 0 ELSE 1)
       /\ DeclaredTools # <<>>
            => DeclarationEntries(res.val[1].Tools)[1].FunctionDeclarations.decls
                 = Map(LAMBDA tool : [name |-> tool.Name, description |-> tool.Description,
                                      parameters |-> tool.Parameters],
                       DeclaredTools)

\* two function tools: one entry with both declarations, in input order
C26_Witness ==
  /\ DidGeminiFromUnified
  /\ Map(LAMBDA tool : tool.Name, op.unified.Tools) = <<"g", "f">>
  /\ Len(res.val[1].Tools) = 1
  /\ Map(LAMBDA decl : decl.name, res.val[1].Tools[1].FunctionDeclarations.decls) = <<"g", "f">>

\* a tool of type google_search_retrieval before a function tool
C26_WitnessBuiltin ==
  /\ DidGeminiFromUnified
  /\ Map(LAMBDA tool : tool.Type, op.unified.Tools) = <<"google_search_retrieval", "function">>
  /\ op.unified.Tools[2].Name = "f"
  /\ Len(res.val[1].Tools) = 2
  /\ res.val[1].Tools[1].GoogleSearchRetrieval # Nil

\* the finish reasons of the choices of a unified response
FinishReasonsOf(unifiedResponse) ==
  Map(LAMBDA choice : choice.FinishReason, unifiedResponse.Choices)

\* the state after a unified response went through an adapter's
\* ResponseFromUnified and the result through the same adapter's
\* ResponseToUnified
DidResponseRoundTrip ==
  /\ op.name = "ResponseToUnified"
  /\ HasPrev(op)
  /\ op.prev.op.name = "ResponseFromUnified"
  /\ op.prev.op.provider = op.provider

\* C27: a unified response whose finish reason is stop, length, tool_calls or
\* content_filter, converted by an adapter's ResponseFromUnified and back by
\* the same adapter's ResponseToUnified, has the same finish reason again.
C27_FinishReasonRoundTrip ==
  (/\ DidResponseRoundTrip
   /\ \A i \in 1..Len(op.prev.op.unified.Choices) :
        op.prev.op.unified.Choices[i].FinishReason \in CanonicalFinishReasons)
    => /\ res.err = NoErr
       /\ FinishReasonsOf(res.val[1]) = FinishReasonsOf(op.prev.op.unified)

\* the state after Do(response) of the OpenAI transformer into a Claude response
DidOpenAIResponseToClaude ==
  /\ op.name = "Do" /\ op.transformer = "OpenAITransformer"
  /\ op.typ = TransformerTypeResponse
  /\ op.src.kind = "openai.ChatCompletionResponse"
  /\ op.dst = Claude_NoResponse

\* C28: after the direct OpenAI -> Claude response conversion the Claude usage
\* has input_tokens + cache_creation_input_tokens + cache_read_input_tokens
\* equal to the OpenAI prompt_tokens and output_tokens equal to
\* completion_tokens; the cache counts are those of the prompt token details,
\* and without details input_tokens is prompt_tokens.
C28_UsageAddsUpToPromptTokens ==
  DidOpenAIResponseToClaude
    => /\ res.err = NoErr /\ ~res.panic
       /\ dst[1].Usage # Nil
       /\ dst[1].Usage[1].InputTokens + dst[1].Usage[1].CacheCreationInputTokens
            + dst[1].Usage[1].CacheReadInputTokens = op.src.Usage.PromptTokens
       /\ dst[1].Usage[1].OutputTokens = op.src.Usage.CompletionTokens
       /\ IF op.src.Usage.PromptTokensDetails = Nil
            THEN dst[1].Usage[1].InputTokens = op.src.Usage.PromptTokens
            ELSE /\ dst[1].Usage[1].CacheCreationInputTokens
                      = op.src.Usage.PromptTokensDetails[1].CacheCreationInputTokens
                 /\ dst[1].Usage[1].CacheReadInputTokens
                      = op.src.Usage.PromptTokensDetails[1].CacheReadInputTokens

\* two prompt tokens, one written to the cache and one read from it
C28_Witness ==
  /\ DidOpenAIResponseToClaude
  /\ op.src.Usage.PromptTokens = 2
  /\ op.src.Usage.PromptTokensDetails # Nil
  /\ dst[1].Usage[1].CacheCreationInputTokens = 1
  /\ dst[1].Usage[1].CacheReadInputTokens = 1
  /\ dst[1].Usage[1].InputTokens = 0

\* C29: every Do call of a direct transformer with the transformation type
\* stream or chunk, whatever the transformer, the source and the destination,
\* returns an error, does not panic and leaves the object behind dst as it was.
C29_StreamAndChunkReturnError ==
  (op.name = "Do" /\ op.typ \in {TransformerTypeStream, TransformerTypeChunk})
    => /\ ~res.panic
       /\ res.err # NoErr
       /\ dst = Some(op.dst)

\* the state after ToUnified or ResponseToUnified of the Gemini adapter
DidGeminiToUnified ==
  /\ op.name \in {"ToUnified", "ResponseToUnified"}
  /\ op.provider = ProviderGemini
  /\ res.err = NoErr

\* the tool calls of what the Gemini adapter returned, in order
ProducedToolCalls ==
  IF op.name = "ToUnified"
    THEN Flatten(Map(LAMBDA message : message.ToolCalls, res.val[1].Messages))
    ELSE Flatten(Map(LAMBDA choice : choice.Message.ToolCalls, res.val[1].Choices))

\* the function calls of the Gemini payload that was converted, in order
SourceFunctionCalls ==
  LET contents == IF op.name = "ToUnified" THEN op.request.Contents
                  ELSE Map(LAMBDA candidate : candidate.Content, op.response.Candidates)
  IN  SelectSeq(Flatten(Map(LAMBDA content : content.Parts, contents)),
                LAMBDA part : part.FunctionCall # Nil)

\* C30: ToUnified and ResponseToUnified of the Gemini adapter produce one tool
\* call per function call of the payload, and every tool call has the same id,
\* call_10, whatever its name, its position and the number of function calls.
C30_OneIdForEveryToolCall ==
  DidGeminiToUnified
    => /\ Len(ProducedToolCalls) = Len(SourceFunctionCalls)
       /\ \A i, j \in 1..Len(ProducedToolCalls) : ProducedToolCalls[i].ID = ProducedToolCalls[j].ID
       /\ \A i \in 1..Len(ProducedToolCalls) : ProducedToolCalls[i].ID = "call_10"

\* a response with the function calls f and g: two tool calls with one id
C30_Witness ==
  /\ DidGeminiToUnified
  /\ op.name = "ResponseToUnified"
  /\ Map(LAMBDA call : call.Name, ProducedToolCalls) = <<"f", "g">>
  /\ ProducedToolCalls[1].ID = ProducedToolCalls[2].ID

\* a request with the function calls g and f
C30_WitnessRequest ==
  /\ DidGeminiToUnified
  /\ op.name = "ToUnified"
  /\ Map(LAMBDA call : call.Name, ProducedToolCalls) = <<"g", "f">>
  /\ ProducedToolCalls[1].ID = ProducedToolCalls[2].ID

====
